---- MODULE Spec2Model ----
(***************************************************************************)
(* Client-side interaction layer of the library catalogue: the modal       *)
(* controllers (borrow, return, delete, logout), the per-record countdown  *)
(* timers of the borrow list, and the search/filter controller with its    *)
(* browser-history synchronisation.                                        *)
(*                                                                         *)
(* JavaScript runs each handler to completion, so every event handler and  *)
(* every continuation of an awaited fetch is one atomic action.            *)
(***************************************************************************)
EXTENDS Integers, Sequences, FiniteSets, Bags, TLC

VARIABLES
    \* ---- modal controllers --------------------------------------------
    modalShow,      \* modal -> the modal element has class 'show'
    modalErrText,   \* modal -> textContent of its .modal-error element
    modalErrShow,   \* modal -> its .modal-error element has class 'show'
    listeners,      \* modal -> entities captured by the submit listeners, in registration order
    submitDisabled, \* modal -> .modal-submit button is disabled
    inflight,       \* bag of POST requests awaiting their response
    nav,            \* what window.location was told: stay / reload / href
    handled,        \* the request and response whose continuation ran in the last step, if one did
    \* ---- borrow list and its timers ------------------------------------
    now,            \* the wall clock read by new Date(), in ms
    recordsFetch,   \* the get-records-data request: "pending", "done" or "failed"
    borrowsEmpty,   \* textContent of the borrow list's .empty-text element
    items,          \* the rendered borrow records, in list order
    \* ---- search and filter controller (book search page) ---------------
    searchLoaded,   \* the search scripts have run their top-level code
    history,        \* URLs of this document's session-history entries
    cursor,         \* index of the current entry; window.location is history[cursor]
    searchFilter,   \* [sort, genres]
    searchBar,      \* searchBar.value
    oldSearch,      \* the text remembered for the next refocus
    active,         \* searchContainer has class 'active'
    focused,        \* the search bar has the keyboard focus
    filterMenuShow, \* the filter dropdown menu has class 'show'
    navMenuShow,    \* the other dropdown menu of the page (a navbar item) has class 'show'
    clearShown,     \* clearFilterBtn has class 'show'
    checked,        \* filter items with class 'checked'
    popStateEvent,  \* window.popStateEvent
    searches,       \* outstanding search requests: is the newest one out, is any older one out
    results,        \* what the results container shows
    lastQuery,      \* the searchQuery call made in the last step, if one was made: its caller,
                    \* its arguments, its url, and which pushState it executed
    lastClick,      \* where the click handled in the last step landed, seen from the
                    \* dropdowns: on a trigger, in a content, outside every menu
    \* formatTimeLeft, called on its own
    fmtIn,          \* the duration handed to formatTimeLeft, by its d, h, m, s and ms parts
    fmtOut,         \* the string it returned
    \* the login and register forms
    formErrors,     \* per form and '.error' element: its 'show' class and its text
    formInflight,   \* per form: POSTs that await their response
    formHandled,    \* the response the form handler took up in the last step
    \* the featured sections
    featuredFetch,  \* "idle", "nopage", "pending", "done" or "failed"
    featuredContainer, \* the sections appended to '.container.featured'
    \* arraysEqual, called on its own
    eqA,            \* its first argument
    eqB,            \* its second argument
    eqCalled,       \* the call has returned
    eqOut,          \* the value it returned
    \* the defaultFilter object of the search page
    baseline,       \* the values the defaultFilter object holds now
    sharedGenres    \* searchFilter.genres is the very array defaultFilter.genres is

modalVars == <<modalShow, modalErrText, modalErrShow, listeners, submitDisabled,
               inflight, nav, handled>>

timerVars == <<now, recordsFetch, borrowsEmpty, items>>

searchVars == <<searchLoaded, history, cursor, searchFilter, searchBar, oldSearch,
                active, focused, filterMenuShow, navMenuShow, clearShown, checked, popStateEvent,
                searches, results, lastQuery, lastClick>>

fmtVars == <<fmtIn, fmtOut>>

formVars == <<formErrors, formInflight, formHandled>>

featuredVars == <<featuredFetch, featuredContainer>>

eqVars == <<eqA, eqB, eqCalled, eqOut>>

aliasVars == <<baseline, sharedGenres>>

\* The variables of the parts that the search page does not touch.
sideVars == <<fmtIn, fmtOut, formErrors, formInflight, formHandled,
              featuredFetch, featuredContainer, eqA, eqB, eqCalled, eqOut>>

auxVars == <<fmtIn, fmtOut, formErrors, formInflight, formHandled,
             featuredFetch, featuredContainer, eqA, eqB, eqCalled, eqOut,
             baseline, sharedGenres>>

vars == <<modalShow, modalErrText, modalErrShow, listeners, submitDisabled,
          inflight, nav, handled, now, recordsFetch, borrowsEmpty, items,
          searchLoaded, history, cursor, searchFilter, searchBar, oldSearch,
          active, focused, filterMenuShow, navMenuShow, clearShown, checked, popStateEvent,
          searches, results, lastQuery, lastClick, fmtIn, fmtOut,
          formErrors, formInflight, formHandled,
          featuredFetch, featuredContainer, eqA, eqB, eqCalled, eqOut,
          baseline, sharedGenres>>

(***************************************************************************)
(* Bounds of the model.                                                    *)
(***************************************************************************)
MaxListeners == 2   \* submit listeners registered by the entry points, all forms together
MaxInflight  == 2   \* POST requests in flight at once
MaxRecords   == 1   \* borrow records in one get-records-data response
MaxHist      == 3   \* entries of the session history
MaxTimed     == 2   \* unreturned records on the borrows page whose timers run side by side

(***************************************************************************)
(* Modal controllers                                                       *)
(***************************************************************************)
Modals   == {"borrow", "return", "delete", "logout"}
Entities == {"e1", "e2"}        \* books / records handed to an entry point
NoEntity == "none"              \* the logout listener captures no entity
None     == "absent"            \* a key the JSON body does not carry

Generic == "An error has occurred!"

Stay   == [act |-> "stay",   url |-> None]
Reload == [act |-> "reload", url |-> None]
Href(u) == [act |-> "href",  url |-> u]

\* JSON bodies a server may answer with: each recognised key absent or a
\* non-empty string (the handlers test the keys for truthiness).
Bodies ==
    [redirect : {None, "/login/"}, log_error : {None, "trace"}, modal_error : {None, "x"}]

\* How a request can end: fetch rejects; the status is not OK and the body is
\* JSON or not; the status is OK and the body is JSON or not.
Responses ==
    {[kind |-> "netfail", body |-> None], [kind |-> "notok_badjson", body |-> None],
     [kind |-> "ok_badjson", body |-> None]}
    \cup [kind : {"ok", "notok"}, body : Bodies]

NoneHandled == [modal |-> None, resp |-> None]

\* The catch block shared by the four listeners.
CatchBlock_Reloads == [nav |-> Reload, err |-> Generic]

CatchBlock == [nav |-> Stay, err |-> Generic]

\* if (data.redirect) .. else if (data.log_error) .. else if (data.modal_error) .. else reload
BorrowBranch_ModalErrorFirst(data) ==
    IF data.redirect # None THEN [nav |-> Href(data.redirect), err |-> None]
    ELSE IF data.modal_error # None THEN [nav |-> Stay, err |-> data.modal_error]
    ELSE IF data.log_error # None THEN [nav |-> Stay, err |-> Generic]
    ELSE [nav |-> Reload, err |-> None]

BorrowBranch(data) ==
    IF data.redirect # None THEN [nav |-> Href(data.redirect), err |-> None]
    ELSE IF data.log_error # None THEN [nav |-> Stay, err |-> Generic]
    ELSE IF data.modal_error # None THEN [nav |-> Stay, err |-> data.modal_error]
    ELSE [nav |-> Reload, err |-> None]

ReturnBranch(data) ==
    IF data.redirect # None THEN [nav |-> Href(data.redirect), err |-> None]
    ELSE IF data.log_error # None THEN [nav |-> Stay, err |-> Generic]
    ELSE IF data.modal_error # None THEN [nav |-> Stay, err |-> data.modal_error]
    ELSE [nav |-> Reload, err |-> None]

DeleteBranch(data) ==
    IF data.redirect # None THEN [nav |-> Href(data.redirect), err |-> None]
    ELSE IF data.log_error # None THEN [nav |-> Stay, err |-> Generic]
    ELSE IF data.modal_error # None THEN [nav |-> Stay, err |-> data.modal_error]
    ELSE [nav |-> Reload, err |-> None]

\* The logout listener has no redirect branch.
LogoutBranch(data) ==
    IF data.log_error # None THEN [nav |-> Stay, err |-> Generic]
    ELSE IF data.modal_error # None THEN [nav |-> Stay, err |-> data.modal_error]
    ELSE [nav |-> Reload, err |-> None]

\* try { fetch; if (!response.ok) throw await response.json(); data = await response.json(); branch }
\* catch { generic error }
TryCatch(m, resp) ==
    IF resp.kind = "ok"
    THEN CASE m = "borrow" -> BorrowBranch(resp.body)
           [] m = "return" -> ReturnBranch(resp.body)
           [] m = "delete" -> DeleteBranch(resp.body)
           [] m = "logout" -> LogoutBranch(resp.body)
    ELSE CatchBlock

\* The listeners of the borrow and return forms disable the submit button
\* before the fetch and re-enable it in finally; delete and logout do neither.
TogglesSubmit(m) == m \in {"borrow", "return"}

\* Entry point borrowBook / returnBook / deleteBook: show, clear the error,
\* and register one more submit listener that captures the entity.
OpenModal(m, e) ==
    /\ modalShow' = [modalShow EXCEPT ![m] = TRUE]
    /\ modalErrShow' = [modalErrShow EXCEPT ![m] = FALSE]
    /\ modalErrText' = [modalErrText EXCEPT ![m] = ""]
    /\ listeners' = [listeners EXCEPT ![m] = Append(@, e)]
    /\ UNCHANGED <<submitDisabled, inflight, nav>>
    /\ handled' = NoneHandled
    /\ UNCHANGED timerVars
    /\ UNCHANGED searchVars
    /\ UNCHANGED auxVars

\* Listeners the entry points have registered so far (the logout listener is
\* registered once, at script load).
Registered == Len(listeners["borrow"]) + Len(listeners["return"]) + Len(listeners["delete"])

borrowBook(book) ==
    /\ nav = Stay
    /\ Registered < MaxListeners
    /\ OpenModal("borrow", book)

returnBook(record) ==
    /\ nav = Stay
    /\ Registered < MaxListeners
    /\ OpenModal("return", record)

deleteBook(book) ==
    /\ nav = Stay
    /\ Registered < MaxListeners
    /\ OpenModal("delete", book)

\* logoutBtn.onclick: show and clear the error; the one listener was
\* registered when the script loaded.
LogoutBtnClick ==
    /\ nav = Stay
    /\ modalShow' = [modalShow EXCEPT !["logout"] = TRUE]
    /\ modalErrShow' = [modalErrShow EXCEPT !["logout"] = FALSE]
    /\ modalErrText' = [modalErrText EXCEPT !["logout"] = ""]
    /\ UNCHANGED <<listeners, submitDisabled, inflight, nav>>
    /\ handled' = NoneHandled
    /\ UNCHANGED timerVars
    /\ UNCHANGED searchVars
    /\ UNCHANGED auxVars

\* Close button of a modal, and a click on its backdrop: same effect.
HideModal(m) ==
    /\ modalShow' = [modalShow EXCEPT ![m] = FALSE]
    /\ modalErrShow' = [modalErrShow EXCEPT ![m] = FALSE]
    /\ modalErrText' = [modalErrText EXCEPT ![m] = ""]
    /\ UNCHANGED <<listeners, submitDisabled, inflight, nav>>
    /\ handled' = NoneHandled
    /\ UNCHANGED timerVars
    /\ UNCHANGED searchVars
    /\ UNCHANGED auxVars

CloseBtnClick(m) ==
    /\ nav = Stay
    /\ modalShow[m]
    /\ HideModal(m)

BackdropClick(m) ==
    /\ nav = Stay
    /\ modalShow[m]
    /\ HideModal(m)

Requests == [modal : Modals, entity : Entities \cup {NoEntity}]

\* The POSTs one submit event sends: every registered listener runs, each
\* with the entity it captured.
PostsOf(m) ==
    LET ls == listeners[m]
        sent == {[modal |-> m, entity |-> ls[i]] : i \in 1..Len(ls)}
    IN  [r \in sent |-> Cardinality({i \in 1..Len(ls) : ls[i] = r.entity})]

\* The form's submit event: the user confirms in a shown modal whose submit
\* button is enabled. Every listener disables the button (borrow, return)
\* and starts its fetch.
Submit(m) ==
    /\ nav = Stay
    /\ modalShow[m]
    /\ ~submitDisabled[m]
    /\ BagCardinality(inflight) + Len(listeners[m]) <= MaxInflight
    /\ inflight' = inflight (+) PostsOf(m)
    /\ submitDisabled' = [submitDisabled EXCEPT ![m] = IF TogglesSubmit(m) THEN TRUE ELSE @]
    /\ UNCHANGED <<modalShow, modalErrText, modalErrShow, listeners, nav>>
    /\ handled' = NoneHandled
    /\ UNCHANGED timerVars
    /\ UNCHANGED searchVars
    /\ UNCHANGED auxVars

ModalInit ==
    /\ modalShow = [m \in Modals |-> FALSE]
    /\ modalErrText = [m \in Modals |-> ""]
    /\ modalErrShow = [m \in Modals |-> FALSE]
    /\ listeners = [m \in Modals |-> IF m = "logout" THEN <<NoEntity>> ELSE <<>>]
    /\ submitDisabled = [m \in Modals |-> FALSE]
    /\ inflight = EmptyBag
    /\ handled = NoneHandled

\* window.location.reload() / window.location.href = url: the document is
\* unloaded, and with it its DOM, its listeners and its pending fetches.
Unload(to) ==
    /\ nav' = to
    /\ modalShow' = [m \in Modals |-> FALSE]
    /\ modalErrText' = [m \in Modals |-> ""]
    /\ modalErrShow' = [m \in Modals |-> FALSE]
    /\ listeners' = [m \in Modals |-> IF m = "logout" THEN <<NoEntity>> ELSE <<>>]
    /\ submitDisabled' = [m \in Modals |-> FALSE]
    /\ inflight' = EmptyBag

\* Variant of Deliver whose stay branches leave the submit button as it is.
Deliver_NoFinally(req, resp) ==
    /\ nav = Stay
    /\ BagIn(req, inflight)
    /\ LET m == req.modal
           out == TryCatch(m, resp)
       IN  /\ handled' = [modal |-> m, resp |-> resp]
           /\ UNCHANGED timerVars
           /\ UNCHANGED searchVars
           /\ UNCHANGED auxVars
           /\ IF out.nav # Stay
              THEN Unload(out.nav)
              ELSE /\ modalErrText' = [modalErrText EXCEPT ![m] = out.err]
                   /\ modalErrShow' = [modalErrShow EXCEPT ![m] = TRUE]
                   /\ inflight' = inflight (-) SetToBag({req})
                   /\ UNCHANGED <<modalShow, listeners, nav, submitDisabled>>

\* The continuation of a listener after the fetch of `req` settles with `resp`.
Deliver(req, resp) ==
    /\ nav = Stay
    /\ BagIn(req, inflight)
    /\ LET m == req.modal
           out == TryCatch(m, resp)
       IN  /\ handled' = [modal |-> m, resp |-> resp]
           /\ UNCHANGED timerVars
           /\ UNCHANGED searchVars
           /\ UNCHANGED auxVars
           /\ IF out.nav # Stay
              THEN Unload(out.nav)
              ELSE /\ modalErrText' = [modalErrText EXCEPT ![m] = out.err]
                   /\ modalErrShow' = [modalErrShow EXCEPT ![m] = TRUE]
                   /\ submitDisabled' = [submitDisabled EXCEPT ![m] = IF TogglesSubmit(m) THEN FALSE ELSE @]
                   /\ inflight' = inflight (-) SetToBag({req})
                   /\ UNCHANGED <<modalShow, listeners, nav>>

(***************************************************************************)
(* Borrow list: rendering and the two timers of an unreturned record       *)
(***************************************************************************)
Hour == 60 * 60 * 1000
Day  == 24 * 60 * 60 * 1000

\* Instants the wall clock is sampled at.
Times == {23 * Hour, Day, 7 * Day, 11 * Day - Hour, 11 * Day, 14 * Day, 15 * Day}

\* JSON null in place of a date: the record has not been returned.
NullDate == <<"null">>

Digits == <<"0", "1", "2", "3", "4", "5", "6", "7", "8", "9">>

DigitOf(c) == CHOOSE d \in 0..9 : Digits[d + 1] = c

TwoDigits(n) == <<Digits[(n \div 10) + 1], Digits[(n % 10) + 1]>>

ThreeDigits(n) == <<Digits[(n \div 100) + 1]>> \o TwoDigits(n % 100)

\* The date strings of the JSON payload, character by character: ISO 8601 in
\* UTC for day dd of January 1970 at hh:00:00, with the milliseconds written
\* only when they are not zero ('1970-01-15T00:00:00Z',
\* '1970-01-15T00:00:00.500Z').
IsoString(dd, hh, fff) ==
    <<"1", "9", "7", "0", "-", "0", "1", "-">> \o TwoDigits(dd) \o <<"T">> \o TwoDigits(hh)
        \o <<":", "0", "0", ":", "0", "0">>
        \o (IF fff = 0 THEN <<>> ELSE <<".">> \o ThreeDigits(fff)) \o <<"Z">>

\* new Date(s).getTime() for such a string, in ms.
ParseDate(s) ==
    LET dd == 10 * DigitOf(s[9]) + DigitOf(s[10])
        hh == 10 * DigitOf(s[12]) + DigitOf(s[13])
        fff == IF s[20] = "." THEN 100 * DigitOf(s[21]) + 10 * DigitOf(s[22]) + DigitOf(s[23])
               ELSE 0
    IN  ((dd - 1) * 24 + hh) * Hour + fff

\* The UTF-16 code unit of a character of a date string.
CharCode(c) ==
    CASE c = "-" -> 45
      [] c = "." -> 46
      [] c = ":" -> 58
      [] c = "T" -> 84
      [] c = "Z" -> 90
      [] OTHER   -> 48 + DigitOf(c)

\* a < b on two strings: the code units at the first position where they
\* differ decide, and a proper prefix is the smaller string.
RECURSIVE StringLess(_, _)
StringLess(a, b) ==
    IF b = <<>> THEN FALSE
    ELSE IF a = <<>> THEN TRUE
    ELSE IF Head(a) = Head(b) THEN StringLess(Tail(a), Tail(b))
    ELSE CharCode(Head(a)) < CharCode(Head(b))

\* A record of the payload. borrow and due are the instants
\* new Date(record.borrow_date) and new Date(record.due_date); `returned`
\* is the truth value of record.return_date.
Record(borrow, due_date, return_date) ==
    [borrow |-> borrow, due |-> ParseDate(due_date), due_date |-> due_date,
     return_date |-> return_date, returned |-> return_date # NullDate]

\* Records the server may send: two that are out, and three that came back
\* before the due date, a day after it, and half a second after it.
RecordData ==
    {Record(0, IsoString(15, 0, 0), NullDate),
     Record(10 * Day, IsoString(25, 0, 0), NullDate),
     Record(0, IsoString(15, 0, 0), IsoString(10, 0, 0)),
     Record(0, IsoString(15, 0, 0), IsoString(16, 0, 0)),
     Record(0, IsoString(15, 0, 0), IsoString(15, 0, 500))}

RecordLists == UNION {[1..n -> RecordData] : n \in 0..MaxRecords}

NothingText == "Nothing to display here."

Min(a, b) == IF a < b THEN a ELSE b

RECURSIVE Join(_)
Join(parts) ==
    IF Len(parts) = 1 THEN parts[1] ELSE parts[1] \o " " \o Join(Tail(parts))

\* Durations handed to formatTimeLeft, written by their parts: whole days,
\* hours, minutes, seconds and the milliseconds beyond the last whole second.
FormatParts ==
    [d : {0, 1, 2}, h : {0, 3, 23}, m : {0, 15, 59}, s : {0, 1, 59}, r : {0, 999}]

NoParts == [d |-> 0, h |-> 0, m |-> 0, s |-> 0, r |-> 0]

\* The number of milliseconds of a duration written by its parts.
MsOf(parts) == parts.d * Day + parts.h * Hour + parts.m * 60 * 1000 + parts.s * 1000 + parts.r

\* Variant of formatTimeLeft that cuts to three units before dropping the
\* zero ones.
formatTimeLeft_SliceFirst(ms) ==
    LET units == << [label |-> "d", value |-> ms \div (1000 * 60 * 60 * 24)],
                    [label |-> "h", value |-> (ms \div (1000 * 60 * 60)) % 24],
                    [label |-> "m", value |-> (ms \div (1000 * 60)) % 60] >>
        shown == SelectSeq(units, LAMBDA u : u.value > 0)
    IN  IF Len(shown) = 0 THEN "0s"
        ELSE Join([k \in 1..Len(shown) |-> ToString(shown[k].value) \o shown[k].label])

\* formatTimeLeft(ms): the first three non-zero units of d, h, m, s; "0s" if none.
formatTimeLeft(ms) ==
    LET units == << [label |-> "d", value |-> ms \div (1000 * 60 * 60 * 24)],
                    [label |-> "h", value |-> (ms \div (1000 * 60 * 60)) % 24],
                    [label |-> "m", value |-> (ms \div (1000 * 60)) % 60],
                    [label |-> "s", value |-> (ms \div 1000) % 60] >>
        nonZeroUnits == SelectSeq(units, LAMBDA u : u.value > 0)
        shown == SubSeq(nonZeroUnits, 1, Min(3, Len(nonZeroUnits)))
    IN  IF Len(nonZeroUnits) = 0 THEN "0s"
        ELSE Join([k \in 1..Len(shown) |-> ToString(shown[k].value) \o shown[k].label])

\* One call of formatTimeLeft with the duration held in fmtIn.
FormatCall ==
    /\ fmtOut = None
    /\ fmtOut' = formatTimeLeft(MsOf(fmtIn))
    /\ UNCHANGED fmtIn
    /\ UNCHANGED formVars
    /\ UNCHANGED featuredVars
    /\ UNCHANGED eqVars
    /\ UNCHANGED aliasVars
    /\ UNCHANGED modalVars
    /\ UNCHANGED timerVars
    /\ UNCHANGED searchVars

\* The clone of the item template before the record's branch runs.
Clone(record) ==
    [data |-> record,
     returnBtn |-> TRUE,        \* the return option is in the item
     returnDateEl |-> TRUE,     \* the .book-return-date element is in the item
     returnDisabled |-> FALSE, returnTooltip |-> "", returnTimer |-> FALSE, returnNow |-> None,
     clockClass |-> {}, clockTooltip |-> "", dueTimer |-> FALSE, dueNow |-> None]

\* Variant of updateReturnTimer that still disables the button at timeLeft = 0.
updateReturnTimer_DisabledAtZero(item, t) ==
    LET returnAvailableTime == item.data.borrow + 1 * (24 * 60 * 60 * 1000)
        timeLeft == returnAvailableTime - t
    IN  [item EXCEPT
            !.returnNow = t,
            !.returnDisabled = timeLeft >= 0,
            !.returnTooltip = IF timeLeft <= 0 THEN "Return this book"
                              ELSE "You can return this in " \o formatTimeLeft(timeLeft),
            !.returnTimer = IF timeLeft <= 0 THEN FALSE ELSE @]

\* Variant of updateReturnTimer whose clearInterval also hits the due timer
\* of the record.
updateReturnTimer_ClearsBoth(item, t) ==
    LET returnAvailableTime == item.data.borrow + 1 * (24 * 60 * 60 * 1000)
        timeLeft == returnAvailableTime - t
    IN  [item EXCEPT
            !.returnNow = t,
            !.returnDisabled = timeLeft > 0,
            !.returnTooltip = IF timeLeft <= 0 THEN "Return this book"
                              ELSE "You can return this in " \o formatTimeLeft(timeLeft),
            !.returnTimer = IF timeLeft <= 0 THEN FALSE ELSE @,
            !.dueTimer = IF timeLeft <= 0 THEN FALSE ELSE @]

\* updateReturnTimer, run with the clock at t. clearInterval(returnTimer)
\* cancels the interval whose id returnTimer holds.
updateReturnTimer(item, t) ==
    LET returnAvailableTime == item.data.borrow + 1 * (24 * 60 * 60 * 1000)
        timeLeft == returnAvailableTime - t
    IN  [item EXCEPT
            !.returnNow = t,
            !.returnDisabled = timeLeft > 0,
            !.returnTooltip = IF timeLeft <= 0 THEN "Return this book"
                              ELSE "You can return this in " \o formatTimeLeft(timeLeft),
            !.returnTimer = IF timeLeft <= 0 THEN FALSE ELSE @]

\* Variant of addClass that leaves the conflicting class in place.
addClass_KeepsOther(classes, name) == classes \cup {name}

\* addClass(name) of updateDueTimer: drop the conflicting class, add name.
addClass(classes, name) ==
    LET kept == IF name = "warning" THEN classes \ {"critical"}
                ELSE IF name = "critical" THEN classes \ {"warning"}
                ELSE classes
    IN  IF name \notin kept THEN kept \cup {name} ELSE kept

\* Variant of updateDueTimer whose three-day threshold is strict.
updateDueTimer_StrictThreeDays(item, t) ==
    LET timeLeft == item.data.due - t
    IN  [item EXCEPT
            !.dueNow = t,
            !.clockTooltip = IF timeLeft <= 0 THEN "Overdue!"
                             ELSE "Due in " \o formatTimeLeft(timeLeft),
            !.dueTimer = IF timeLeft <= 0 THEN FALSE ELSE @,
            !.clockClass =
                IF timeLeft <= 0 THEN addClass(@, "critical")
                ELSE IF timeLeft < 3 * (24 * 60 * 60 * 1000) THEN addClass(@, "critical")
                ELSE IF timeLeft <= 7 * (24 * 60 * 60 * 1000) THEN addClass(@, "warning")
                ELSE @ \ {"warning", "critical"}]

\* updateDueTimer, run with the clock at t.
updateDueTimer(item, t) ==
    LET timeLeft == item.data.due - t
    IN  [item EXCEPT
            !.dueNow = t,
            !.clockTooltip = IF timeLeft <= 0 THEN "Overdue!"
                             ELSE "Due in " \o formatTimeLeft(timeLeft),
            !.dueTimer = IF timeLeft <= 0 THEN FALSE ELSE @,
            !.clockClass =
                IF timeLeft <= 0 THEN addClass(@, "critical")
                ELSE IF timeLeft <= 3 * (24 * 60 * 60 * 1000) THEN addClass(@, "critical")
                ELSE IF timeLeft <= 7 * (24 * 60 * 60 * 1000) THEN addClass(@, "warning")
                ELSE @ \ {"warning", "critical"}]

\* The body of data.forEach(record => ...) with the clock at t. For an
\* unreturned record each update function runs once before its interval is
\* created, so the clearInterval of that first run has no interval to cancel.
RenderItem(record, t) ==
    LET clone == Clone(record)
    IN  IF record.returned
        THEN [clone EXCEPT
                !.returnBtn = FALSE,
                !.clockClass = IF StringLess(record.due_date, record.return_date)
                               THEN @ \cup {"critical"} ELSE @ \cup {"done"},
                !.clockTooltip = IF StringLess(record.due_date, record.return_date)
                                 THEN "Returned overdue" ELSE "Returned"]
        ELSE LET afterReturn == [updateReturnTimer([clone EXCEPT !.returnDateEl = FALSE], t)
                                    EXCEPT !.returnTimer = TRUE]
             IN  [updateDueTimer(afterReturn, t) EXCEPT !.dueTimer = TRUE]

\* .then(data => ...) of initializeBorrows.
RenderRecords(data) ==
    /\ nav = Stay
    /\ recordsFetch = "pending"
    /\ recordsFetch' = "done"
    /\ borrowsEmpty' = IF Len(data) > 0 THEN "" ELSE NothingText
    /\ items' = [i \in 1..Len(data) |-> RenderItem(data[i], now)]
    /\ UNCHANGED now
    /\ UNCHANGED modalVars
    /\ UNCHANGED searchVars
    /\ UNCHANGED auxVars

\* The response is not OK, or the fetch rejects: the catch only logs.
RecordsFetchFails ==
    /\ nav = Stay
    /\ recordsFetch = "pending"
    /\ recordsFetch' = "failed"
    /\ UNCHANGED <<now, borrowsEmpty, items>>
    /\ UNCHANGED modalVars
    /\ UNCHANGED searchVars
    /\ UNCHANGED auxVars

\* A firing of the interval created by setInterval(updateReturnTimer, 1000).
ReturnTick(i) ==
    /\ nav = Stay
    /\ i \in 1..Len(items)
    /\ items[i].returnTimer
    /\ items' = [items EXCEPT ![i] = updateReturnTimer(@, now)]
    /\ UNCHANGED <<now, recordsFetch, borrowsEmpty>>
    /\ UNCHANGED modalVars
    /\ UNCHANGED searchVars
    /\ UNCHANGED auxVars

\* A firing of the interval created by setInterval(updateDueTimer, 1000).
DueTick(i) ==
    /\ nav = Stay
    /\ i \in 1..Len(items)
    /\ items[i].dueTimer
    /\ items' = [items EXCEPT ![i] = updateDueTimer(@, now)]
    /\ UNCHANGED <<now, recordsFetch, borrowsEmpty>>
    /\ UNCHANGED modalVars
    /\ UNCHANGED searchVars
    /\ UNCHANGED auxVars

\* Time passes.
ClockAdvance ==
    /\ nav = Stay
    /\ \E t \in Times : t > now /\ now' = t
    /\ UNCHANGED <<recordsFetch, borrowsEmpty, items>>
    /\ UNCHANGED modalVars
    /\ UNCHANGED searchVars
    /\ UNCHANGED auxVars

\* The system clock is adjusted backwards; new Date() follows it.
ClockSetBack ==
    /\ nav = Stay
    /\ \E t \in Times : t < now /\ now' = t
    /\ UNCHANGED <<recordsFetch, borrowsEmpty, items>>
    /\ UNCHANGED modalVars
    /\ UNCHANGED searchVars
    /\ UNCHANGED auxVars

\* returnBtn.onclick of a rendered, unreturned record whose button is enabled.
ReturnBtnClick(i) ==
    /\ i \in 1..Len(items)
    /\ items[i].returnBtn
    /\ ~items[i].returnDisabled
    /\ returnBook("e" \o ToString(i))

\* The script starts the fetch at load; the clock then stands at some instant
\* and moves by ClockAdvance and ClockSetBack.
TimerInit ==
    /\ now = 7 * Day
    /\ recordsFetch = "pending"
    /\ borrowsEmpty = ""
    /\ items = <<>>

TimerNext ==
    \/ \E data \in RecordLists : RenderRecords(data)
    \/ RecordsFetchFails
    \/ \E i \in 1..MaxRecords : ReturnTick(i)
    \/ \E i \in 1..MaxRecords : DueTick(i)
    \/ ClockAdvance
    \/ ClockSetBack

\* Responses with unreturned records only, no two of them alike: every item
\* gets its two timers, and the timers of different items end at different
\* instants.
TimedLists ==
    {l \in [1..MaxTimed -> {r \in RecordData : ~r.returned}] :
        \A i, j \in 1..MaxTimed : i # j => l[i] # l[j]}

\* Ends of a return request on the borrows page: the fetch rejects, or the
\* server reports success.
ReturnOutcomes ==
    {[kind |-> "netfail", body |-> None],
     [kind |-> "ok", body |-> [redirect |-> None, log_error |-> None, modal_error |-> None]]}

(***************************************************************************)
(* Search and filter controller: texts and URLs                            *)
(*                                                                         *)
(* A text is a sequence of tokens. A token is one character, except that   *)
(* a name without any delimiter in it (a path, a parameter name, a filter  *)
(* value) and a percent escape are one token each.                         *)
(***************************************************************************)
Null == <<"null">>     \* JavaScript null, distinct from every text

currentPath == <<"/library/">>

\* String.prototype.trim
RECURSIVE TrimStart(_)
TrimStart(s) == IF s # <<>> /\ Head(s) = " " THEN TrimStart(Tail(s)) ELSE s

RECURSIVE TrimEnd(_)
TrimEnd(s) == IF s # <<>> /\ s[Len(s)] = " " THEN TrimEnd(SubSeq(s, 1, Len(s) - 1)) ELSE s

Trim(s) == TrimEnd(TrimStart(s))

\* Position of the first token c in s, 0 if there is none.
IndexOf(s, c) ==
    IF \E i \in 1..Len(s) : s[i] = c
    THEN CHOOSE i \in 1..Len(s) : s[i] = c /\ \A j \in 1..(i - 1) : s[j] # c
    ELSE 0

\* String.prototype.split(c)
RECURSIVE Split(_, _)
Split(s, c) ==
    LET i == IndexOf(s, c)
    IN  IF i = 0 THEN <<s>>
        ELSE <<SubSeq(s, 1, i - 1)>> \o Split(SubSeq(s, i + 1, Len(s)), c)

\* Array.prototype.toString: the elements joined by ","
RECURSIVE ArrayToString(_)
ArrayToString(a) ==
    IF a = <<>> THEN <<>>
    ELSE IF Len(a) = 1 THEN a[1]
    ELSE a[1] \o <<",">> \o ArrayToString(Tail(a))

encodeURIComponent(s) ==
    [i \in 1..Len(s) |->
        CASE s[i] = "," -> "%2C"
          [] s[i] = "#" -> "%23"
          [] s[i] = "&" -> "%26"
          [] s[i] = "=" -> "%3D"
          [] s[i] = " " -> "%20"
          [] OTHER -> s[i]]

\* Percent-decoding of a parameter name or value by URLSearchParams.
Decode(s) ==
    [i \in 1..Len(s) |->
        CASE s[i] = "%2C" -> ","
          [] s[i] = "%23" -> "#"
          [] s[i] = "%26" -> "&"
          [] s[i] = "%3D" -> "="
          [] s[i] = "%20" -> " "
          [] s[i] = "+" -> " "
          [] OTHER -> s[i]]

\* window.location.search of a URL: from "?" up to the fragment, "" if empty.
LocationSearch(url) ==
    LET h == IndexOf(url, "#")
        noHash == IF h = 0 THEN url ELSE SubSeq(url, 1, h - 1)
        q == IndexOf(noHash, "?")
    IN  IF q = 0 \/ q = Len(noHash) THEN <<>> ELSE SubSeq(noHash, q, Len(noHash))

\* new URLSearchParams(search): the name/value pairs in order.
URLSearchParams(search) ==
    LET body == IF search # <<>> /\ Head(search) = "?" THEN Tail(search) ELSE search
        pieces == SelectSeq(Split(body, "&"), LAMBDA p : p # <<>>)
        Pair(p) == LET e == IndexOf(p, "=")
                   IN  IF e = 0 THEN [name |-> Decode(p), value |-> <<>>]
                       ELSE [name |-> Decode(SubSeq(p, 1, e - 1)),
                             value |-> Decode(SubSeq(p, e + 1, Len(p)))]
    IN  [k \in 1..Len(pieces) |-> Pair(pieces[k])]

ParamsHas(ps, name) == \E k \in 1..Len(ps) : ps[k].name = name

\* URLSearchParams.get: the first value of that name, or null.
ParamsGet(ps, name) ==
    IF ParamsHas(ps, name)
    THEN ps[CHOOSE k \in 1..Len(ps) :
                ps[k].name = name /\ \A j \in 1..(k - 1) : ps[j].name # name].value
    ELSE Null

\* param.split(',').filter(v => v)
SplitValues(value) == SelectSeq(Split(value, ","), LAMBDA v : v # <<>>)

(***************************************************************************)
(* Search and filter controller: state and handlers                        *)
(***************************************************************************)
\* The page-provided baseline. The values come from the page template.
defaultFilter == [sort |-> <<"popular">>, genres |-> <<>>]

\* data-filter_value of the filter items: the option names in lower case.
SortItems  == {"popular", "latest", "oldest"}
GenreItems == {"g1", "g2"}

\* Texts the user types into the search bar.
Texts == {<<>>, <<"a">>, <<"c", "#">>}

\* URLs the page is opened with.
LoadURLs ==
    {currentPath,
     currentPath \o <<"?", "sort", "=", "latest">>,
     currentPath \o <<"?", "q", "=", "a", "&", "sort", "=", "oldest", "&", "genres", "=">>}

\* Bodies of a search-books response.
SearchData == [books : {<<>>, <<"b1">>, <<"b1", "b2">>}, is_staff : BOOLEAN]

NoQuery == [event |-> None]

\* Results of a search-records response.
RecordSearchData == {<<>>, <<"r1">>, <<"r1", "r2">>}

\* The '.empty-text' element of the results container.
EmptyTextEl == "empty-text"

\* The container as the page template delivers it: the empty-state element
\* alone, nothing rendered yet.
NoResults == [of |-> None, children |-> <<EmptyTextEl>>, emptyText |-> ""]

arraysEqual(a, b) ==
    IF Len(a) # Len(b) THEN FALSE
    ELSE \A i \in 1..Len(a) : \E j \in 1..Len(b) : b[j] = a[i]

Includes(a, v) == \E i \in 1..Len(a) : a[i] = v

\* Variant of isDefault that compares the scalar keys only.
IsDefault_ScalarsOnly(filter) == filter.sort = defaultFilter.sort

\* isDefault of filterChanged
IsDefault(filter) ==
    /\ filter.sort = defaultFilter.sort
    /\ arraysEqual(filter.genres, defaultFilter.genres)

\* The filter items filterChanged marks 'checked'.
Matched(filter) ==
    {name \in SortItems \cup GenreItems : filter.sort = <<name>> \/ Includes(filter.genres, <<name>>)}

\* The seeding of searchFilter from the parameters of a URL, for every key of
\* defaultFilter.
SeedFilter(ps) ==
    LET sortParam == ParamsGet(ps, <<"sort">>)
        genresParam == ParamsGet(ps, <<"genres">>)
    IN  [sort |-> IF sortParam = Null THEN defaultFilter.sort ELSE sortParam,
         genres |-> IF genresParam # Null /\ genresParam # <<>>
                    THEN SplitValues(genresParam) ELSE defaultFilter.genres]

\* The parameter string searchQuery builds: only the genres are encoded.
QueryParams(query, filter) ==
    <<"q", "=">> \o query \o <<"&", "sort", "=">> \o filter.sort
        \o <<"&", "genres", "=">> \o encodeURIComponent(ArrayToString(filter.genres))

QueryURL(query, filter) == currentPath \o <<"?">> \o QueryParams(query, filter)

\* history.pushState(state, '', url) with entry cur of hist current: the
\* entries after it are dropped and the new entry becomes the current one.
PushState(hist, cur, url) ==
    /\ history' = SubSeq(hist, 1, cur) \o <<url>>
    /\ cursor' = cur + 1

\* Variant of searchQuery that pushes whatever window.popStateEvent holds.
searchQuery_IgnoresFlag(event, query, activeArg, flag, filter, hist, cur) ==
    LET trimmed == Trim(query)
        url == QueryURL(trimmed, filter)
    IN  /\ IF activeArg THEN PushState(hist, cur, url)
           ELSE PushState(hist, cur, currentPath)
        /\ searches' = [newest |-> TRUE, older |-> searches.older \/ searches.newest]
        /\ results' = [results EXCEPT !.of = IF @ = None THEN None ELSE "older"]
        /\ lastQuery' = [event |-> event, query |-> trimmed, active |-> activeArg, url |-> url,
                         pushed |-> IF activeArg THEN "url" ELSE "path"]

\* searchQuery(query, active) called from `event` with searchFilter = filter,
\* window.popStateEvent = flag and entry cur of hist current. The request it
\* sends becomes the newest outstanding one; results on display belong to an
\* older query from now on.
searchQuery(event, query, activeArg, flag, filter, hist, cur) ==
    LET trimmed == Trim(query)
        url == QueryURL(trimmed, filter)
    IN  /\ IF ~flag
           THEN IF activeArg THEN PushState(hist, cur, url)
                ELSE PushState(hist, cur, currentPath)
           ELSE history' = hist /\ cursor' = cur
        /\ searches' = [newest |-> TRUE, older |-> searches.older \/ searches.newest]
        /\ results' = [results EXCEPT !.of = IF @ = None THEN None ELSE "older"]
        /\ lastQuery' = [event |-> event, query |-> trimmed, active |-> activeArg, url |-> url,
                         pushed |-> IF flag THEN None ELSE IF activeArg THEN "url" ELSE "path"]

\* Room for one more history entry.
Room == cursor < MaxHist

\* filterChanged() with the filter, bar text, active class and flag the
\* handler has set by then.
filterChanged(event, filter, bar, act, flag, hist, cur) ==
    /\ checked' = Matched(filter)
    /\ clearShown' = ~IsDefault(filter)
    /\ searchQuery(event, bar, act, flag, filter, hist, cur)

\* Variant of the seeding that assigns the default array itself.
SeedShares_NoCopy(ps) ==
    LET genresParam == ParamsGet(ps, <<"genres">>)
    IN  genresParam = Null \/ genresParam = <<>>

\* Whether the array the seeding assigns to searchFilter.genres is the array
\* of defaultFilter: param.split(',').filter(v => v) and [...defaultValue]
\* both build a new array.
SeedShares(ps) == FALSE

\* defaultFilter after searchFilter.genres was changed in place (push,
\* splice) to `genres`: the change shows in defaultFilter exactly when both
\* keys hold one array.
AfterInPlace(genres) ==
    IF sharedGenres THEN [baseline EXCEPT !.genres = genres] ELSE baseline

AliasInit ==
    /\ baseline = defaultFilter
    /\ sharedGenres = FALSE

\* The top-level code of the search scripts, run when the page is opened at
\* URL u: seed searchFilter, take over a q parameter, filterChanged().
PageLoad(u) ==
    /\ nav = Stay
    /\ ~searchLoaded
    /\ searchLoaded' = TRUE
    /\ LET ps == URLSearchParams(LocationSearch(u))
           filter == SeedFilter(ps)
           hasQ == ParamsHas(ps, <<"q">>)
           bar == IF hasQ THEN ParamsGet(ps, <<"q">>) ELSE searchBar
       IN  /\ searchFilter' = filter
           /\ active' = hasQ
           /\ oldSearch' = IF hasQ THEN ParamsGet(ps, <<"q">>) ELSE oldSearch
           /\ searchBar' = bar
           /\ filterChanged("load", filter, bar, hasQ, popStateEvent, <<u>>, 1)
    /\ UNCHANGED <<focused, filterMenuShow, navMenuShow, popStateEvent>>
    /\ lastClick' = None
    /\ UNCHANGED modalVars
    /\ UNCHANGED timerVars
    /\ UNCHANGED sideVars
    /\ baseline' = baseline
    /\ sharedGenres' = SeedShares(URLSearchParams(LocationSearch(u)))

\* The URLSearchParams the scripts parsed at load. Entry 1 of the history is
\* the URL the page was opened with, and no entry is ever replaced.
params == URLSearchParams(LocationSearch(history[1]))

\* searchFilter[key].splice(searchFilter[key].indexOf(value), 1)
RemoveFirst(a, v) ==
    LET i == IndexOf(a, v)
    IN  SubSeq(a, 1, i - 1) \o SubSeq(a, i + 1, Len(a))

\* Variant of the filter item click whose click is not stopped at the
\* content: the menu's listener toggles the menu and the window handler runs.
FilterItemClick_Propagates(key, value) ==
    /\ nav = Stay
    /\ searchLoaded
    /\ filterMenuShow
    /\ Room
    /\ LET filter ==
              IF key = "genres"
              THEN IF Includes(searchFilter.genres, value)
                   THEN [searchFilter EXCEPT !.genres = RemoveFirst(@, value)]
                   ELSE [searchFilter EXCEPT !.genres = Append(@, value)]
              ELSE [searchFilter EXCEPT !.sort = value]
       IN  /\ searchFilter' = filter
           /\ filterChanged("filter", filter, searchBar, active, popStateEvent, history, cursor)
    /\ focused' = FALSE
    /\ filterMenuShow' = ~filterMenuShow
    /\ navMenuShow' = FALSE
    /\ UNCHANGED <<searchLoaded, searchBar, oldSearch, active, popStateEvent>>
    /\ lastClick' = "content"
    /\ UNCHANGED modalVars
    /\ UNCHANGED timerVars
    /\ UNCHANGED sideVars
    /\ baseline' = IF key = "genres" THEN AfterInPlace(searchFilter'.genres) ELSE baseline
    /\ UNCHANGED sharedGenres

\* Click on the filter item `value` of column `key`. The items are inside the
\* dropdown content, which is visible while the menu shows.
FilterItemClick(key, value) ==
    /\ nav = Stay
    /\ searchLoaded
    /\ filterMenuShow
    /\ Room
    /\ LET filter ==
              IF key = "genres"
              THEN IF Includes(searchFilter.genres, value)
                   THEN [searchFilter EXCEPT !.genres = RemoveFirst(@, value)]
                   ELSE [searchFilter EXCEPT !.genres = Append(@, value)]
              ELSE [searchFilter EXCEPT !.sort = value]
       IN  /\ searchFilter' = filter
           /\ filterChanged("filter", filter, searchBar, active, popStateEvent, history, cursor)
    /\ focused' = FALSE
    /\ UNCHANGED <<searchLoaded, searchBar, oldSearch, active, filterMenuShow, navMenuShow, popStateEvent>>
    /\ lastClick' = "content"
    /\ UNCHANGED modalVars
    /\ UNCHANGED timerVars
    /\ UNCHANGED sideVars
    /\ baseline' = IF key = "genres" THEN AfterInPlace(searchFilter'.genres) ELSE baseline
    /\ UNCHANGED sharedGenres

\* Click on the clear-filter button while it is shown. Where the button sits
\* relative to the dropdown menu is decided by the page template, so the
\* click may or may not reach the handler that closes the menus.
ClearFilterClick ==
    /\ nav = Stay
    /\ searchLoaded
    /\ clearShown
    /\ Room
    /\ LET filter == SeedFilter(params)
       IN  /\ searchFilter' = filter
           /\ filterChanged("clear", filter, searchBar, active, popStateEvent, history, cursor)
    /\ focused' = FALSE
    /\ \E closes \in BOOLEAN :
          /\ filterMenuShow' = (filterMenuShow /\ ~closes)
          /\ navMenuShow' = (navMenuShow /\ ~closes)
          /\ lastClick' = IF closes THEN "outside" ELSE "content"
    /\ UNCHANGED <<searchLoaded, searchBar, oldSearch, active, popStateEvent>>
    /\ UNCHANGED modalVars
    /\ UNCHANGED timerVars
    /\ UNCHANGED sideVars
    /\ baseline' = baseline
    /\ sharedGenres' = SeedShares(params)

\* Variant of the focusin handler that leaves the bar as it finds it.
FocusIn_NoRestore ==
    /\ nav = Stay
    /\ searchLoaded
    /\ ~focused
    /\ focused' = TRUE
    /\ IF ~active
       THEN /\ Room
            /\ active' = TRUE
            /\ searchBar' = searchBar
            /\ searchQuery("focus", searchBar, TRUE, popStateEvent, searchFilter, history, cursor)
       ELSE /\ lastQuery' = NoQuery
            /\ UNCHANGED <<active, searchBar, history, cursor, searches, results>>
    /\ UNCHANGED <<searchLoaded, searchFilter, oldSearch, filterMenuShow, navMenuShow, clearShown,
                   checked, popStateEvent>>
    /\ lastClick' = None
    /\ UNCHANGED modalVars
    /\ UNCHANGED timerVars
    /\ UNCHANGED auxVars

\* focusin on the search bar.
FocusIn ==
    /\ nav = Stay
    /\ searchLoaded
    /\ ~focused
    /\ focused' = TRUE
    /\ IF ~active
       THEN /\ Room
            /\ active' = TRUE
            /\ LET bar == IF oldSearch # <<>> THEN oldSearch ELSE searchBar
               IN  /\ searchBar' = bar
                   /\ searchQuery("focus", bar, TRUE, popStateEvent, searchFilter, history, cursor)
       ELSE /\ lastQuery' = NoQuery
            /\ UNCHANGED <<active, searchBar, history, cursor, searches, results>>
    /\ UNCHANGED <<searchLoaded, searchFilter, oldSearch, filterMenuShow, navMenuShow, clearShown,
                   checked, popStateEvent>>
    /\ lastClick' = None
    /\ UNCHANGED modalVars
    /\ UNCHANGED timerVars
    /\ UNCHANGED auxVars

\* The search bar loses the focus without a mouse press (keyboard).
Blur ==
    /\ nav = Stay
    /\ searchLoaded
    /\ focused
    /\ focused' = FALSE
    /\ lastQuery' = NoQuery
    /\ UNCHANGED <<searchLoaded, history, cursor, searchFilter, searchBar, oldSearch, active,
                   filterMenuShow, navMenuShow, clearShown, checked, popStateEvent, searches, results>>
    /\ lastClick' = None
    /\ UNCHANGED modalVars
    /\ UNCHANGED timerVars
    /\ UNCHANGED auxVars

\* Variant of the mousedown handler that does not look at the filter dropdown.
MouseDownOutside_IgnoresFilter ==
    /\ nav = Stay
    /\ searchLoaded
    /\ focused' = FALSE
    /\ IF active
       THEN /\ Room
            /\ oldSearch' = searchBar
            /\ active' = FALSE
            /\ searchBar' = <<>>
            /\ searchQuery("collapse", <<>>, FALSE, popStateEvent, searchFilter, history, cursor)
       ELSE /\ lastQuery' = NoQuery
            /\ UNCHANGED <<oldSearch, active, searchBar, history, cursor, searches, results>>
    /\ UNCHANGED <<searchLoaded, searchFilter, filterMenuShow, navMenuShow, clearShown, checked, popStateEvent>>
    /\ lastClick' = None
    /\ UNCHANGED modalVars
    /\ UNCHANGED timerVars
    /\ UNCHANGED auxVars

\* mousedown outside the search wrapper and outside every result item.
MouseDownOutside ==
    /\ nav = Stay
    /\ searchLoaded
    /\ focused' = FALSE
    /\ IF ~filterMenuShow /\ active
       THEN /\ Room
            /\ oldSearch' = searchBar
            /\ active' = FALSE
            /\ searchBar' = <<>>
            /\ searchQuery("collapse", <<>>, FALSE, popStateEvent, searchFilter, history, cursor)
       ELSE /\ lastQuery' = NoQuery
            /\ UNCHANGED <<oldSearch, active, searchBar, history, cursor, searches, results>>
    /\ UNCHANGED <<searchLoaded, searchFilter, filterMenuShow, navMenuShow, clearShown, checked, popStateEvent>>
    /\ lastClick' = None
    /\ UNCHANGED modalVars
    /\ UNCHANGED timerVars
    /\ UNCHANGED auxVars

\* Variant of the window click handler that closes the filter dropdown only.
WindowClickOutside_FilterOnly ==
    /\ nav = Stay
    /\ searchLoaded
    /\ filterMenuShow \/ navMenuShow
    /\ filterMenuShow' = FALSE
    /\ navMenuShow' = navMenuShow
    /\ lastQuery' = NoQuery
    /\ UNCHANGED <<searchLoaded, history, cursor, searchFilter, searchBar, oldSearch, active,
                   focused, clearShown, checked, popStateEvent, searches, results>>
    /\ lastClick' = "outside"
    /\ UNCHANGED modalVars
    /\ UNCHANGED timerVars
    /\ UNCHANGED auxVars

\* The click that follows a press outside every dropdown menu: the window
\* click handler of the dropdowns closes the open menu.
WindowClickOutside ==
    /\ nav = Stay
    /\ searchLoaded
    /\ filterMenuShow \/ navMenuShow
    /\ filterMenuShow' = FALSE
    /\ navMenuShow' = FALSE
    /\ lastQuery' = NoQuery
    /\ UNCHANGED <<searchLoaded, history, cursor, searchFilter, searchBar, oldSearch, active,
                   focused, clearShown, checked, popStateEvent, searches, results>>
    /\ lastClick' = "outside"
    /\ UNCHANGED modalVars
    /\ UNCHANGED timerVars
    /\ UNCHANGED auxVars

\* Variant of the click on the filter dropdown in which the click does not
\* reach the window handler.
FilterMenuClick_KeepsOthers ==
    /\ nav = Stay
    /\ searchLoaded
    /\ filterMenuShow' = ~filterMenuShow
    /\ navMenuShow' = navMenuShow
    /\ focused' = FALSE
    /\ lastQuery' = NoQuery
    /\ UNCHANGED <<searchLoaded, history, cursor, searchFilter, searchBar, oldSearch, active,
                   clearShown, checked, popStateEvent, searches, results>>
    /\ lastClick' = "trigger"
    /\ UNCHANGED modalVars
    /\ UNCHANGED timerVars
    /\ UNCHANGED auxVars

\* Click on the filter dropdown itself, outside its content: its own click
\* listener toggles it, then the click reaches the window handler, which
\* closes every menu that does not contain the target.
FilterMenuClick ==
    /\ nav = Stay
    /\ searchLoaded
    /\ filterMenuShow' = ~filterMenuShow
    /\ navMenuShow' = FALSE
    /\ focused' = FALSE
    /\ lastQuery' = NoQuery
    /\ UNCHANGED <<searchLoaded, history, cursor, searchFilter, searchBar, oldSearch, active,
                   clearShown, checked, popStateEvent, searches, results>>
    /\ lastClick' = "trigger"
    /\ UNCHANGED modalVars
    /\ UNCHANGED timerVars
    /\ UNCHANGED auxVars

\* Click on the other dropdown, outside its content: the same two handlers.
NavMenuClick ==
    /\ nav = Stay
    /\ searchLoaded
    /\ navMenuShow' = ~navMenuShow
    /\ filterMenuShow' = FALSE
    /\ focused' = FALSE
    /\ lastQuery' = NoQuery
    /\ UNCHANGED <<searchLoaded, history, cursor, searchFilter, searchBar, oldSearch, active,
                   clearShown, checked, popStateEvent, searches, results>>
    /\ lastClick' = "trigger"
    /\ UNCHANGED modalVars
    /\ UNCHANGED timerVars
    /\ UNCHANGED auxVars

\* Click inside the content of the other dropdown while it shows: the
\* content's listener stops the propagation, so neither the menu's listener
\* nor the window handler runs.
NavContentClick ==
    /\ nav = Stay
    /\ searchLoaded
    /\ navMenuShow
    /\ focused' = FALSE
    /\ lastQuery' = NoQuery
    /\ UNCHANGED <<searchLoaded, history, cursor, searchFilter, searchBar, oldSearch, active,
                   filterMenuShow, navMenuShow, clearShown, checked, popStateEvent,
                   searches, results>>
    /\ lastClick' = "content"
    /\ UNCHANGED modalVars
    /\ UNCHANGED timerVars
    /\ UNCHANGED auxVars

\* The user changes the text of the focused search bar to t.
Input(t) ==
    /\ nav = Stay
    /\ searchLoaded
    /\ focused
    /\ t # searchBar
    /\ Room
    /\ searchBar' = t
    /\ searchQuery("input", t, TRUE, popStateEvent, searchFilter, history, cursor)
    /\ UNCHANGED <<searchLoaded, searchFilter, oldSearch, active, focused, filterMenuShow, navMenuShow,
                   clearShown, checked, popStateEvent>>
    /\ lastClick' = None
    /\ UNCHANGED modalVars
    /\ UNCHANGED timerVars
    /\ UNCHANGED auxVars

\* newParams.forEach of the popstate handler: every parameter that names a
\* key of searchFilter overwrites that key, in the order of the URL.
RECURSIVE ApplyParams(_, _)
ApplyParams(ps, filter) ==
    IF ps = <<>> THEN filter
    ELSE LET p == Head(ps)
             next == IF p.name = <<"q">> THEN filter
                     ELSE IF p.name = <<"genres">>
                          THEN [filter EXCEPT !.genres =
                                   IF p.value # <<>> THEN SplitValues(p.value) ELSE <<>>]
                     ELSE IF p.name = <<"sort">>
                          THEN [filter EXCEPT !.sort = p.value]
                     ELSE filter
         IN  ApplyParams(Tail(ps), next)

\* The popstate handler, run after the user moved to entry k of the history.
\* It raises window.popStateEvent for its own duration.
PopState(k) ==
    /\ nav = Stay
    /\ searchLoaded
    /\ k \in 1..Len(history)
    /\ k # cursor
    /\ LET flag == TRUE
           newParams == URLSearchParams(LocationSearch(history[k]))
           hasQ == ParamsHas(newParams, <<"q">>)
           bar == IF hasQ THEN ParamsGet(newParams, <<"q">>) ELSE <<>>
           filter == ApplyParams(newParams, searchFilter)
       IN  /\ active' = hasQ
           /\ oldSearch' = IF hasQ THEN ParamsGet(newParams, <<"q">>) ELSE oldSearch
           /\ searchBar' = bar
           /\ searchFilter' = filter
           /\ filterChanged("popstate", filter, bar, hasQ, flag, history, k)
    /\ popStateEvent' = FALSE
    /\ UNCHANGED <<searchLoaded, focused, filterMenuShow, navMenuShow>>
    /\ lastClick' = None
    /\ UNCHANGED modalVars
    /\ UNCHANGED timerVars
    /\ UNCHANGED sideVars
    /\ baseline' = baseline
    /\ sharedGenres' = (sharedGenres /\ ~ParamsHas(URLSearchParams(LocationSearch(history[k])), <<"genres">>))

AddShortcut == "add"

\* One response of the kind `which` ("newest" or "older") is consumed. After
\* an older one, other older requests may or may not remain outstanding.
Answered(which) ==
    /\ IF which = "newest" THEN searches.newest ELSE searches.older
    /\ IF which = "newest"
       THEN searches' = [searches EXCEPT !.newest = FALSE]
       ELSE \E more \in BOOLEAN : searches' = [searches EXCEPT !.older = more]

\* node.remove() / the detaching half of appendChild: el leaves the children.
RemoveChild(children, el) == SelectSeq(children, LAMBDA c : c # el)

\* container.appendChild(el): a node that is already a child is moved to the
\* end, a clone is a new child.
AppendChild(children, el) == Append(RemoveChild(children, el), el)

\* forEach(x => container.appendChild(clone of the template for x)): every
\* clone is a new child.
AppendClones(children, els) == children \o els

\* Variant of the book rendering that does not empty the container first.
RenderBooks_NoClear(children, data, bar) ==
    LET kept == AppendChild(children, EmptyTextEl)
        emptySearchBar == Trim(bar) = <<>>
        withShortcut == IF data.is_staff /\ emptySearchBar
                        THEN AppendChild(RemoveChild(AppendClones(kept, <<AddShortcut>>),
                                                     EmptyTextEl), EmptyTextEl)
                        ELSE kept
    IN  [children |-> AppendClones(withShortcut, data.books),
         emptyText |-> IF Len(data.books) > 0 THEN "" ELSE NothingText]

\* Variant of the book rendering that adds the staff shortcut whatever the
\* search bar holds.
RenderBooks_ShortcutForAnyText(children, data, bar) ==
    LET cleared == AppendChild(<<>>, EmptyTextEl)
        withShortcut == IF data.is_staff
                        THEN AppendChild(RemoveChild(AppendClones(cleared, <<AddShortcut>>),
                                                     EmptyTextEl), EmptyTextEl)
                        ELSE cleared
    IN  [children |-> AppendClones(withShortcut, data.books),
         emptyText |-> IF Len(data.books) > 0 THEN "" ELSE NothingText]

\* The rendering of a search-books response into a container that holds
\* `children`, while the search bar holds `bar`: innerHTML = '', the
\* empty-state element back in, its text, the staff shortcut, the books.
RenderBooks(children, data, bar) ==
    LET cleared == AppendChild(<<>>, EmptyTextEl)
        emptySearchBar == Trim(bar) = <<>>
        withShortcut == IF data.is_staff /\ emptySearchBar
                        THEN AppendChild(RemoveChild(AppendClones(cleared, <<AddShortcut>>),
                                                     EmptyTextEl), EmptyTextEl)
                        ELSE cleared
    IN  [children |-> AppendClones(withShortcut, data.books),
         emptyText |-> IF Len(data.books) > 0 THEN "" ELSE NothingText]

\* The rendering of a search-records response: the same without a shortcut.
RenderRecordResults(children, data) ==
    LET cleared == AppendChild(<<>>, EmptyTextEl)
    IN  [children |-> AppendClones(cleared, data),
         emptyText |-> IF Len(data) > 0 THEN "" ELSE NothingText]

\* .then(data => ...) of the book searchQuery for a request of the kind
\* `which`: the container is emptied and filled from data.
SearchResponse(which, data) ==
    /\ nav = Stay
    /\ Answered(which)
    /\ LET r == RenderBooks(results.children, data, searchBar)
       IN  results' = [of |-> which, children |-> r.children, emptyText |-> r.emptyText]
    /\ lastQuery' = NoQuery
    /\ UNCHANGED <<searchLoaded, history, cursor, searchFilter, searchBar, oldSearch, active,
                   focused, filterMenuShow, navMenuShow, clearShown, checked, popStateEvent>>
    /\ lastClick' = None
    /\ UNCHANGED modalVars
    /\ UNCHANGED timerVars
    /\ UNCHANGED auxVars

\* .then(data => ...) of the record searchQuery, which the borrows page loads
\* in place of the book one. Which of the two scripts the page runs is not
\* tracked: either continuation rewrites the whole container.
RecordSearchResponse(which, data) ==
    /\ nav = Stay
    /\ Answered(which)
    /\ LET r == RenderRecordResults(results.children, data)
       IN  results' = [of |-> which, children |-> r.children, emptyText |-> r.emptyText]
    /\ lastQuery' = NoQuery
    /\ UNCHANGED <<searchLoaded, history, cursor, searchFilter, searchBar, oldSearch, active,
                   focused, filterMenuShow, navMenuShow, clearShown, checked, popStateEvent>>
    /\ lastClick' = None
    /\ UNCHANGED modalVars
    /\ UNCHANGED timerVars
    /\ UNCHANGED auxVars

\* A request of the kind `which` is answered with a non-OK status or not at
\* all: the catch only logs.
SearchFails(which) ==
    /\ nav = Stay
    /\ Answered(which)
    /\ lastQuery' = NoQuery
    /\ UNCHANGED <<searchLoaded, history, cursor, searchFilter, searchBar, oldSearch, active,
                   focused, filterMenuShow, navMenuShow, clearShown, checked, popStateEvent, results>>
    /\ lastClick' = None
    /\ UNCHANGED modalVars
    /\ UNCHANGED timerVars
    /\ UNCHANGED auxVars

SearchInit ==
    /\ searchLoaded = FALSE
    /\ history = <<>>
    /\ cursor = 0
    /\ searchFilter = [sort |-> <<>>, genres |-> <<>>]
    /\ searchBar = <<>>
    /\ oldSearch = <<>>
    /\ active = FALSE
    /\ focused = FALSE
    /\ filterMenuShow = FALSE
    /\ navMenuShow = FALSE
    /\ clearShown = FALSE
    /\ checked = {}
    /\ popStateEvent = FALSE
    /\ searches = [newest |-> FALSE, older |-> FALSE]
    /\ results = NoResults
    /\ lastQuery = NoQuery
    /\ lastClick = None

\* The handlers of the search controller.
HistoryNext ==
    \/ \E u \in LoadURLs : PageLoad(u)
    \/ \E v \in SortItems : FilterItemClick("sort", <<v>>)
    \/ \E v \in GenreItems : FilterItemClick("genres", <<v>>)
    \/ ClearFilterClick
    \/ FocusIn
    \/ Blur
    \/ MouseDownOutside
    \/ WindowClickOutside
    \/ FilterMenuClick
    \/ \E t \in Texts : Input(t)
    \/ \E k \in 1..MaxHist : PopState(k)

SearchNext ==
    \/ HistoryNext
    \/ NavMenuClick
    \/ NavContentClick
    \/ \E which \in {"newest", "older"}, data \in SearchData : SearchResponse(which, data)
    \/ \E which \in {"newest", "older"}, data \in RecordSearchData :
           RecordSearchResponse(which, data)
    \/ \E which \in {"newest", "older"} : SearchFails(which)

\* The clicks on the two dropdowns, inside them and elsewhere.
DropdownNext ==
    \/ \E u \in LoadURLs : PageLoad(u)
    \/ \E v \in SortItems : FilterItemClick("sort", <<v>>)
    \/ \E v \in GenreItems : FilterItemClick("genres", <<v>>)
    \/ ClearFilterClick
    \/ FilterMenuClick
    \/ NavMenuClick
    \/ NavContentClick
    \/ WindowClickOutside
    \/ MouseDownOutside
    \/ FocusIn
    \/ \E k \in 1..MaxHist : PopState(k)

\* The search bar, the history navigation and the responses, without clicks
\* on the filter.
ResultsNext ==
    \/ \E u \in LoadURLs : PageLoad(u)
    \/ FocusIn
    \/ Blur
    \/ MouseDownOutside
    \/ \E t \in Texts : Input(t)
    \/ \E k \in 1..MaxHist : PopState(k)
    \/ \E which \in {"newest", "older"}, data \in SearchData : SearchResponse(which, data)
    \/ \E which \in {"newest", "older"}, data \in RecordSearchData :
           RecordSearchResponse(which, data)
    \/ \E which \in {"newest", "older"} : SearchFails(which)

ModalNext ==
    \/ \E e \in Entities : borrowBook(e)
    \/ \E e \in Entities : returnBook(e)
    \/ \E e \in Entities : deleteBook(e)
    \/ LogoutBtnClick
    \/ \E m \in Modals : CloseBtnClick(m)
    \/ \E m \in Modals : BackdropClick(m)
    \/ \E m \in Modals : Submit(m)
    \/ \E req \in Requests, resp \in Responses : Deliver(req, resp)

\* The borrows page while the clock runs forward: the record list with its
\* timers, the return button of every record, the return modal it opens and
\* the first record search.
BorrowsNext ==
    \/ \E data \in TimedLists : RenderRecords(data)
    \/ RecordsFetchFails
    \/ \E i \in 1..MaxTimed : ReturnTick(i)
    \/ \E i \in 1..MaxTimed : DueTick(i)
    \/ ClockAdvance
    \/ \E i \in 1..MaxTimed : ReturnBtnClick(i)
    \/ CloseBtnClick("return")
    \/ Submit("return")
    \/ \E req \in Requests, resp \in ReturnOutcomes : req.modal = "return" /\ Deliver(req, resp)
    \/ PageLoad(currentPath)
    \/ \E data \in RecordSearchData : RecordSearchResponse("newest", data)
    \/ SearchFails("newest")

(***************************************************************************)
(* The login and register forms                                            *)
(***************************************************************************)
Forms == {"login", "register"}

\* The '.error' elements of the page, by the field in their id 'error-<field>'.
ErrorElements == {"username", "password"}

\* Keys the server may put into `errors`: fields with an error element, the
\* form-wide '__all__', and a field without an element.
ErrorFields == {"username", "password", "__all__", "email"}

\* The message the server reports for a field.
MsgOf(field) ==
    CASE field = "username" -> "Unknown user."
      [] field = "password" -> "Wrong password."
      [] field = "__all__"  -> "Invalid credentials."
      [] OTHER              -> "Invalid email."

\* Object.entries(data.errors): the entries in the order of the JSON object,
\* no key twice.
ErrorEntries ==
    {<<>>}
    \cup {<<[field |-> f, msg |-> MsgOf(f)]>> : f \in ErrorFields}
    \cup {<<[field |-> p[1], msg |-> MsgOf(p[1])], [field |-> p[2], msg |-> MsgOf(p[2])]>> :
             p \in {q \in ErrorFields \X ErrorFields : q[1] # q[2]}}

\* JSON bodies of a login or register response; hasErrors tells whether the
\* body carries an `errors` object.
FormBodies ==
    [success : {TRUE}, redirect_url : {"/library/"}, hasErrors : {FALSE}, errors : {<<>>}]
    \cup [success : {FALSE}, redirect_url : {None}, hasErrors : {TRUE}, errors : ErrorEntries]
    \cup [success : {FALSE}, redirect_url : {None}, hasErrors : {FALSE}, errors : {<<>>}]

\* How a form POST can end: the fetch rejects, the body is not JSON, or the
\* body is JSON.
FormResponses ==
    {[kind |-> "netfail", body |-> None], [kind |-> "badjson", body |-> None]}
    \cup [kind : {"json"}, body : FormBodies]

Hidden == [show |-> FALSE, text |-> ""]

\* document.querySelectorAll('.error').forEach(...): every error element of
\* the page loses 'show' and its text.
ClearErrors == [el \in ErrorElements |-> Hidden]

\* The element the handler of `form` writes the message of `field` to:
\* document.getElementById('error-' + field), which the login handler
\* replaces by the password element for '__all__'; None if there is none.
ElementFor(form, field) ==
    IF form = "login" /\ field = "__all__" THEN "password"
    ELSE IF field \in ErrorElements THEN field
    ELSE None

\* for (const [field, msg] of Object.entries(data.errors)): the entries are
\* written one after the other, a later one over an earlier one.
RECURSIVE ShowErrors(_, _, _)
ShowErrors(form, els, entries) ==
    IF entries = <<>> THEN els
    ELSE LET e == Head(entries)
             el == ElementFor(form, e.field)
             next == IF el = None THEN els
                     ELSE [els EXCEPT ![el] = [show |-> TRUE, text |-> e.msg]]
         IN  ShowErrors(form, next, Tail(entries))

\* The submit event of a form: the handler starts its fetch.
FormSubmit(form) ==
    /\ nav = Stay
    /\ formInflight[form] < MaxInflight
    /\ formInflight' = [formInflight EXCEPT ![form] = @ + 1]
    /\ formHandled' = NoneHandled
    /\ UNCHANGED formErrors
    /\ UNCHANGED fmtVars
    /\ UNCHANGED eqVars
    /\ UNCHANGED aliasVars
    /\ UNCHANGED featuredVars
    /\ UNCHANGED modalVars
    /\ UNCHANGED timerVars
    /\ UNCHANGED searchVars

\* The rest of the handler once the fetch has settled. A rejected fetch and
\* a body that is not JSON make the handler throw before it touches the
\* page; otherwise it clears the errors, then navigates or shows the errors.
FormResponse(form, resp) ==
    /\ nav = Stay
    /\ formInflight[form] > 0
    /\ formHandled' = [modal |-> form, resp |-> resp]
    /\ UNCHANGED fmtVars
    /\ UNCHANGED eqVars
    /\ UNCHANGED aliasVars
    /\ UNCHANGED featuredVars
    /\ UNCHANGED timerVars
    /\ UNCHANGED searchVars
    /\ IF resp.kind = "json" /\ resp.body.success
       THEN /\ Unload(Href(resp.body.redirect_url))
            /\ formErrors' = [f \in Forms |-> ClearErrors]
            /\ formInflight' = [f \in Forms |-> 0]
            /\ UNCHANGED handled
       ELSE /\ formInflight' = [formInflight EXCEPT ![form] = @ - 1]
            /\ formErrors' =
                  IF resp.kind # "json" THEN formErrors
                  ELSE IF ~resp.body.hasErrors
                       THEN [formErrors EXCEPT ![form] = ClearErrors]
                  ELSE [formErrors EXCEPT ![form] = ShowErrors(form, ClearErrors, resp.body.errors)]
            /\ UNCHANGED modalVars

FormsInit ==
    /\ formErrors = [f \in Forms |-> ClearErrors]
    /\ formInflight = [f \in Forms |-> 0]
    /\ formHandled = NoneHandled

FormsNext ==
    \/ \E form \in Forms : FormSubmit(form)
    \/ \E form \in Forms, resp \in FormResponses : FormResponse(form, resp)

(***************************************************************************)
(* The featured sections                                                   *)
(***************************************************************************)
MaxSections == 3

MaxBooks == 8

\* window.featuredParams.page
PageTypes == {None, "home", "library", "genre"}

\* featured.books of a section with n books, a book by its ISBN.
BooksOf(n) == [i \in 1..n |-> [ISBN |-> i, cover |-> i]]

SectionTitles == <<"Popular", "Latest", "Recommended">>

\* The payloads of /api/get-featured-data/: up to MaxSections sections of up
\* to MaxBooks books each.
FeaturedData ==
    UNION {{[i \in 1..k |-> [title |-> SectionTitles[i], books |-> BooksOf(n[i])]] :
              n \in [1..k -> 0..MaxBooks]} : k \in 0..MaxSections}

\* The cloned item of a book: its link and its cover.
FeaturedItemOf(book) == [href |-> book.ISBN, src |-> book.cover]

\* The body of data.forEach: the cloned section with its title, the text of
\* its row and one item per book of the section.
RenderSection(featured) ==
    [title |-> featured.title,
     text  |-> IF Len(featured.books) > 0 THEN "" ELSE "Nothing to display here.",
     items |-> [i \in 1..Len(featured.books) |-> FeaturedItemOf(featured.books[i])]]

\* initializeFeatured up to its fetch; without a page type it only logs.
InitializeFeatured(pageType) ==
    /\ nav = Stay
    /\ featuredFetch = "idle"
    /\ featuredFetch' = IF pageType = None THEN "nopage" ELSE "pending"
    /\ UNCHANGED featuredContainer
    /\ UNCHANGED fmtVars
    /\ UNCHANGED eqVars
    /\ UNCHANGED aliasVars
    /\ UNCHANGED formVars
    /\ UNCHANGED modalVars
    /\ UNCHANGED timerVars
    /\ UNCHANGED searchVars

\* The fetch resolved with an OK response: every section is rendered and
\* appended to the container.
FeaturedResponse(data) ==
    /\ nav = Stay
    /\ featuredFetch = "pending"
    /\ featuredFetch' = "done"
    /\ featuredContainer' = featuredContainer \o [i \in 1..Len(data) |-> RenderSection(data[i])]
    /\ UNCHANGED fmtVars
    /\ UNCHANGED eqVars
    /\ UNCHANGED aliasVars
    /\ UNCHANGED formVars
    /\ UNCHANGED modalVars
    /\ UNCHANGED timerVars
    /\ UNCHANGED searchVars

\* The fetch rejected or the response was not OK: the catch only logs.
FeaturedFails ==
    /\ nav = Stay
    /\ featuredFetch = "pending"
    /\ featuredFetch' = "failed"
    /\ UNCHANGED featuredContainer
    /\ UNCHANGED fmtVars
    /\ UNCHANGED eqVars
    /\ UNCHANGED aliasVars
    /\ UNCHANGED formVars
    /\ UNCHANGED modalVars
    /\ UNCHANGED timerVars
    /\ UNCHANGED searchVars

FeaturedInit ==
    /\ featuredFetch = "idle"
    /\ featuredContainer = <<>>

FeaturedNext ==
    \/ \E pageType \in PageTypes : InitializeFeatured(pageType)
    \/ \E data \in FeaturedData : FeaturedResponse(data)
    \/ FeaturedFails

(***************************************************************************)
(* arraysEqual on its own                                                  *)
(***************************************************************************)
MaxArrayLen == 3

\* The arrays handed to arraysEqual: up to MaxArrayLen genre names, repeated
\* names included.
Arrays == UNION {[1..n -> {<<g>> : g \in GenreItems}] : n \in 0..MaxArrayLen}

\* One call arraysEqual(eqA, eqB).
ArraysCall ==
    /\ ~eqCalled
    /\ eqCalled' = TRUE
    /\ eqOut' = arraysEqual(eqA, eqB)
    /\ UNCHANGED <<eqA, eqB>>
    /\ UNCHANGED aliasVars
    /\ UNCHANGED fmtVars
    /\ UNCHANGED formVars
    /\ UNCHANGED featuredVars
    /\ UNCHANGED modalVars
    /\ UNCHANGED timerVars
    /\ UNCHANGED searchVars

EqInit ==
    /\ eqA = <<>>
    /\ eqB = <<>>
    /\ eqCalled = FALSE
    /\ eqOut = FALSE

AuxInit ==
    /\ fmtIn = NoParts
    /\ fmtOut = None
    /\ FormsInit
    /\ FeaturedInit
    /\ EqInit
    /\ AliasInit

Init == ModalInit /\ nav = Stay /\ TimerInit /\ SearchInit /\ AuxInit

\* formatTimeLeft on its own: any duration of FormatParts is the argument.
FormatInit ==
    /\ ModalInit /\ nav = Stay /\ TimerInit /\ SearchInit
    /\ fmtIn \in FormatParts
    /\ fmtOut = None
    /\ FormsInit
    /\ FeaturedInit
    /\ EqInit
    /\ AliasInit

FormatNext == FormatCall

\* arraysEqual on its own: any two arrays of Arrays are the arguments.
ArraysInit ==
    /\ ModalInit /\ nav = Stay /\ TimerInit /\ SearchInit
    /\ fmtIn = NoParts
    /\ fmtOut = None
    /\ FormsInit
    /\ FeaturedInit
    /\ eqA \in Arrays
    /\ eqB \in Arrays
    /\ eqCalled = FALSE
    /\ eqOut = FALSE
    /\ AliasInit

ArraysNext == ArraysCall

Next ==
    \/ ModalNext
    \/ TimerNext
    \/ \E i \in 1..MaxRecords : ReturnBtnClick(i)
    \/ SearchNext
    \/ FormatNext
    \/ FormsNext
    \/ FeaturedNext
    \/ ArraysNext

Spec == Init /\ [][Next]_vars

SpecModal == Init /\ [][ModalNext]_vars

SpecTimers == Init /\ [][TimerNext]_vars

SpecFormat == FormatInit /\ [][FormatNext]_vars

SpecForms == Init /\ [][FormsNext]_vars

SpecFeatured == Init /\ [][FeaturedNext]_vars

SpecArrays == ArraysInit /\ [][ArraysNext]_vars

SpecBorrows == Init /\ [][BorrowsNext]_vars

SpecSearch == Init /\ [][SearchNext]_vars

SpecResults == Init /\ [][ResultsNext]_vars

SpecDropdown == Init /\ [][DropdownNext]_vars

\* The search controller while no search response arrives. The response
\* continuations write only `searches` and `results`, which no handler reads,
\* so the handlers pass through the same history, filter and search-bar
\* states with or without them.
SpecHistory == Init /\ [][HistoryNext]_vars

(***************************************************************************)
(* Properties of the modal controllers                                     *)
(***************************************************************************)
TriStateModals == {"borrow", "return", "delete"}

\* C1: in the borrow, return and delete controllers every HTTP-OK JSON
\* response is handled by exactly one outcome, chosen in the order
\* redirect -> navigate to it; log_error -> generic text in the modal;
\* modal_error -> that text verbatim, no reload, no navigation; no
\* recognised key -> reload.
C1_TriStatePriority ==
    (handled.modal \in TriStateModals /\ handled.resp.kind = "ok") =>
        LET m == handled.modal
            d == handled.resp.body
        IN  IF d.redirect # None
            THEN nav = Href(d.redirect) /\ ~modalErrShow[m]
            ELSE IF d.log_error # None
            THEN nav = Stay /\ modalErrText[m] = Generic /\ modalErrShow[m]
            ELSE IF d.modal_error # None
            THEN nav = Stay /\ modalErrText[m] = d.modal_error /\ modalErrShow[m]
            ELSE nav = Reload /\ ~modalErrShow[m]

\* A modal_error answer without redirect or log_error has just been handled.
C1_Witness ==
    /\ handled.modal \in TriStateModals
    /\ handled.resp.kind = "ok"
    /\ handled.resp.body.redirect = None
    /\ handled.resp.body.log_error = None
    /\ handled.resp.body.modal_error # None
    /\ modalErrText[handled.modal] = handled.resp.body.modal_error

HardErrors == {r \in Responses : r.kind # "ok"}

\* C2: in each of the four controllers a submission that ends in a hard
\* error (fetch rejects, non-OK status, unparsable body) shows the generic
\* message in that modal and neither reloads nor navigates, whatever keys
\* a non-OK body carries.
C2_HardErrorGeneric ==
    (handled.modal \in Modals /\ handled.resp \in HardErrors) =>
        /\ modalErrText[handled.modal] = Generic
        /\ modalErrShow[handled.modal]
        /\ nav = Stay

\* A non-OK answer whose body carries a redirect has just been handled.
C2_Witness ==
    /\ handled.modal \in Modals
    /\ handled.resp.kind = "notok"
    /\ handled.resp.body.redirect # None
    /\ modalErrText[handled.modal] = Generic

\* Requests of modal m that await their response.
InFlightOf(m) == {req \in BagToSet(inflight) : req.modal = m}

\* C13: for each of the four modals, the submit control is disabled in every
\* state in which a request of that modal is in flight.
C13_DisabledWhileInFlight ==
    \A m \in Modals : InFlightOf(m) # {} => submitDisabled[m]

\* C14: whenever no request of a modal is in flight, its submit control is
\* enabled: every completed submission, whatever its outcome, leaves it so.
C14_EnabledWhenIdle ==
    \A m \in Modals : InFlightOf(m) = {} => ~submitDisabled[m]

\* The response to a borrow submission has just been handled with a
\* modal_error, and nothing of that modal is in flight any more.
C14_Witness ==
    /\ handled.modal = "borrow"
    /\ handled.resp.kind = "ok"
    /\ handled.resp.body.modal_error # None
    /\ modalErrShow["borrow"]
    /\ InFlightOf("borrow") = {}
    /\ ~submitDisabled["borrow"]

\* C15: an HTTP-OK logout response that contains `redirect` makes the page
\* navigate to that URL.
C15_LogoutRedirects ==
    (handled.modal = "logout" /\ handled.resp.kind = "ok"
        /\ handled.resp.body.redirect # None)
      => nav = Href(handled.resp.body.redirect)

(***************************************************************************)
(* Properties of the borrow-list timers                                    *)
(***************************************************************************)
Unreturned == {i \in 1..Len(items) : items[i].returnBtn}

\* C3: after each evaluation of an unreturned record's return-cooldown timer
\* the return button is disabled exactly when the instant the evaluation read
\* is before borrow date + 24 hours; a disabled button's tooltip shows the
\* remaining time, and from borrow date + 24 hours on the button is enabled
\* and its tooltip is exactly 'Return this book'.
C3_ReturnCooldown ==
    \A i \in Unreturned :
        LET it == items[i]
            returnAvailableTime == it.data.borrow + 24 * Hour
        IN  /\ it.returnDisabled <=> it.returnNow < returnAvailableTime
            /\ it.returnDisabled =>
                 it.returnTooltip = "You can return this in "
                                      \o formatTimeLeft(returnAvailableTime - it.returnNow)
            /\ it.returnNow >= returnAvailableTime =>
                 ~it.returnDisabled /\ it.returnTooltip = "Return this book"

\* An evaluation found one hour of cooldown left.
C3_Witness ==
    \E i \in Unreturned :
        /\ items[i].returnDisabled
        /\ items[i].returnTooltip = "You can return this in 1h"
        /\ items[i].data.borrow = 10 * Day

\* C4: after each evaluation of an unreturned record's due timer, with
\* `remaining` the due date minus the instant the evaluation read:
\* remaining <= 0 gives tooltip 'Overdue!' and class critical; 0 < remaining
\* <= 3 days gives critical; 3 days < remaining <= 7 days gives warning;
\* more than 7 days gives neither class.
C4_DueThresholds ==
    \A i \in Unreturned :
        LET it == items[i]
            remaining == it.data.due - it.dueNow
        IN  /\ remaining <= 0 =>
                 it.clockTooltip = "Overdue!" /\ "critical" \in it.clockClass
            /\ (0 < remaining /\ remaining <= 3 * Day) => "critical" \in it.clockClass
            /\ (3 * Day < remaining /\ remaining <= 7 * Day) => "warning" \in it.clockClass
            /\ remaining > 7 * Day =>
                 "warning" \notin it.clockClass /\ "critical" \notin it.clockClass

\* An evaluation read a clock exactly three days before the due date.
C4_Witness ==
    \E i \in Unreturned :
        /\ items[i].data.due - items[i].dueNow = 3 * Day
        /\ items[i].clockClass = {"critical"}
        /\ items[i].clockTooltip = "Due in 3d"

\* C5: once an evaluation of the return-cooldown timer has read a clock at or
\* past borrow date + 24 hours, that timer is cancelled and the button stays
\* enabled in every later state, whatever the clock does.
C5_CooldownTerminal ==
    [][\A i \in Unreturned :
          items[i].returnNow >= items[i].data.borrow + 24 * Hour
            => /\ ~items[i].returnTimer
               /\ ~items'[i].returnDisabled]_vars

\* C6: once an evaluation of the due timer has set the tooltip 'Overdue!',
\* the record shows 'Overdue!' with class critical in every later state.
C6_OverdueTerminal ==
    [][\A i \in Unreturned :
          items[i].clockTooltip = "Overdue!"
            => /\ items'[i].clockTooltip = "Overdue!"
               /\ "critical" \in items'[i].clockClass]_vars

\* C7: no record's clock button, returned or not, carries 'critical' and
\* 'warning' at once.
C7_NeverCriticalAndWarning ==
    \A i \in 1..Len(items) : ~({"critical", "warning"} \subseteq items[i].clockClass)

\* A due timer whose interval has fired put the record in the critical range
\* after the clock passed through the warning range.
C7_Witness ==
    \E i \in Unreturned :
        /\ items[i].clockClass = {"critical"}
        /\ items[i].dueTimer
        /\ items[i].dueNow = 11 * Day
        /\ now = 11 * Day
        /\ items[i].returnNow = 7 * Day

(***************************************************************************)
(* Properties of the search controller                                     *)
(***************************************************************************)
Range(a) == {a[i] : i \in 1..Len(a)}

\* The filter state a URL stands for: what the page seeds from it.
FilterOfURL(url) == SeedFilter(URLSearchParams(LocationSearch(url)))

\* Filter states reached by clicking filter items from the baseline.
ToggledFilters ==
    [sort : {<<v>> : v \in SortItems},
     genres : {<<>>, << <<"g1">> >>, << <<"g2">> >>,
               << <<"g1">>, <<"g2">> >>, << <<"g2">>, <<"g1">> >>}]

\* C8: after any sequence of filter toggles, text inputs, collapse and
\* refocus, clear-filter clicks and history navigations, the filter
\* parameters of the browser URL equal searchFilter for every key (a missing
\* parameter standing for the baseline value, as it does when the page seeds
\* the filter from a URL).
C8_URLEqualsFilter ==
    searchLoaded =>
        /\ FilterOfURL(history[cursor]).sort = searchFilter.sort
        /\ Range(FilterOfURL(history[cursor]).genres) = Range(searchFilter.genres)

\* C9: when the user navigates to a history entry that a query pushed while
\* the filter state was S, the popstate handler leaves searchFilter at S:
\* the same sort value and the same set of genres.
C9_FilterRoundTrip ==
    lastQuery.event = "popstate" =>
        \A T \in Texts, S \in ToggledFilters :
            history[cursor] = QueryURL(Trim(T), S) =>
                /\ searchFilter.sort = S.sort
                /\ Range(searchFilter.genres) = Range(S.genres)

\* C10: a searchQuery call pushes a history entry carrying its query URL
\* exactly when it is not made by the popstate handler and its active
\* argument is true; the popstate handler leaves the history entries as they
\* are; and window.popStateEvent is false once a handler has finished.
C10_PushExactlyWhenTracked ==
    [][lastQuery'.event # None =>
          LET call == lastQuery'
              base == IF call.event = "load" THEN <<history'[1]>>
                      ELSE SubSeq(history, 1, cursor)
          IN  /\ call.pushed = "url" <=> (call.event # "popstate" /\ call.active)
              /\ call.pushed = "url" =>
                    history' = base \o <<call.url>> /\ cursor' = Len(history')
              /\ call.event = "popstate" => call.pushed = None /\ history' = history
              /\ ~popStateEvent']_vars

\* The popstate handler has just queried for an active entry that has entries
\* after it, and an input has pushed before.
C10_Witness ==
    /\ lastQuery.event = "popstate"
    /\ lastQuery.active
    /\ cursor < Len(history)
    /\ \E k \in 1..Len(history) : history[k] = QueryURL(<<"a">>, searchFilter) /\ k # cursor
    /\ ~popStateEvent

\* The keys in which searchFilter differs from defaultFilter: the scalar sort
\* by equality, the genres as sets.
DiffersFromDefault ==
    \/ searchFilter.sort # defaultFilter.sort
    \/ Range(searchFilter.genres) # Range(defaultFilter.genres)

C17_CollapsesInEveryDropdownState ==
    [][(MouseDownOutside /\ active) => (~active' /\ searchBar' = <<>>)]_vars

\* C17: a mouse press outside the search UI while the search is active
\* collapses it when the filter dropdown is closed; while the dropdown is open
\* the press leaves the search active and the bar text as it is.
C17_CollapsesUnlessDropdownOpen ==
    [][(MouseDownOutside /\ active) =>
         IF filterMenuShow
         THEN active' /\ searchBar' = searchBar /\ oldSearch' = oldSearch
         ELSE ~active' /\ searchBar' = <<>>]_vars

\* The search has just been collapsed with a text in the bar.
C17_Witness ==
    /\ lastQuery.event = "collapse"
    /\ ~filterMenuShow
    /\ ~active
    /\ searchBar = <<>>
    /\ oldSearch # <<>>

\* The search as an outside click leaves it: collapsed, bar empty and
\* unfocused, with T remembered.
Collapsed(T) ==
    /\ searchLoaded
    /\ ~active
    /\ ~focused
    /\ searchBar = <<>>
    /\ oldSearch = T

\* C18: an outside click that collapses the search while the bar holds T
\* remembers T; nothing but a history navigation changes that before the bar
\* is focused again; and that refocus re-activates the search, puts T back
\* into the bar and sends the query for (the trimmed) T.
C18_RefocusRestores ==
    [][\A T \in Texts :
         /\ (lastQuery'.event = "collapse" /\ searchBar = T) => Collapsed(T)'
         /\ (Collapsed(T) /\ lastQuery'.event # "popstate" /\ ~focused') => Collapsed(T)'
         /\ (Collapsed(T) /\ focused') =>
                /\ active'
                /\ searchBar' = T
                /\ lastQuery'.event = "focus"
                /\ lastQuery'.query = Trim(T)
                /\ lastQuery'.active
                /\ searches'.newest]_vars

\* The bar was refocused right after a collapse and holds the old text again.
C18_Witness ==
    /\ lastQuery.event = "focus"
    /\ active
    /\ searchBar # <<>>
    /\ searchBar = oldSearch
    /\ cursor > 1
    /\ history[cursor - 1] = currentPath

\* The result items among the children of the container.
ItemsOf(children) == RemoveChild(children, EmptyTextEl)

\* The staff shortcut a book response is rendered with.
ShortcutFor(data, bar) ==
    IF data.is_staff /\ Trim(bar) = <<>> THEN <<AddShortcut>> ELSE <<>>

\* C11 as stated: a response with an empty result list leaves the container
\* with the text 'Nothing to display here.' and without any cloned item, for
\* staff and non-staff users and every text of the search bar.
C11_EmptyListShowsOnlyText ==
    [][/\ \A which \in {"newest", "older"}, data \in SearchData :
            (SearchResponse(which, data) /\ data.books = <<>>) =>
                (results'.emptyText = NothingText /\ ItemsOf(results'.children) = <<>>)
       /\ \A which \in {"newest", "older"} :
            RecordSearchResponse(which, <<>>) =>
                (results'.emptyText = NothingText /\ ItemsOf(results'.children) = <<>>)]_vars

\* C11: a response with an empty result list leaves the container with the
\* text 'Nothing to display here.' and without any book or record item; the
\* one clone it can hold is the 'Add a book' shortcut of the book search,
\* present exactly when the user is staff and the trimmed search bar is empty.
C11_EmptyListShowsTextAndShortcut ==
    [][/\ \A which \in {"newest", "older"}, data \in SearchData :
            (SearchResponse(which, data) /\ data.books = <<>>) =>
                /\ results'.emptyText = NothingText
                /\ ItemsOf(results'.children) = ShortcutFor(data, searchBar)
       /\ \A which \in {"newest", "older"} :
            RecordSearchResponse(which, <<>>) =>
                (results'.emptyText = NothingText /\ ItemsOf(results'.children) = <<>>)]_vars

\* An empty list was rendered for a staff user while the bar is empty: the
\* text and the shortcut, no book.
C11_Witness ==
    /\ results.of = "newest"
    /\ results.emptyText = NothingText
    /\ results.children = <<AddShortcut, EmptyTextEl>>
    /\ active
    /\ searchBar = <<>>
    /\ lastQuery = NoQuery

\* Exactly one empty-state element among the children.
OneEmptyState(children) ==
    Len(SelectSeq(children, LAMBDA c : c = EmptyTextEl)) = 1

\* C12 as stated: after every handled response the container holds one
\* empty-state element and one item per result, nothing else, and the
\* empty-state text is empty when there are results.
C12_ContainerMatchesResponse ==
    [][/\ \A which \in {"newest", "older"}, data \in SearchData :
            SearchResponse(which, data) =>
                /\ OneEmptyState(results'.children)
                /\ ItemsOf(results'.children) = data.books
                /\ Len(data.books) > 0 => results'.emptyText = ""
       /\ \A which \in {"newest", "older"}, data \in RecordSearchData :
            RecordSearchResponse(which, data) =>
                /\ OneEmptyState(results'.children)
                /\ ItemsOf(results'.children) = data
                /\ Len(data) > 0 => results'.emptyText = ""]_vars

\* C12: after every handled response the container holds one empty-state
\* element and one item per result of that response, preceded in the book
\* search by the staff shortcut when the user is staff and the trimmed search
\* bar is empty; nothing is left of earlier responses, and the empty-state
\* text is empty when there are results.
C12_ContainerMatchesResponseAndShortcut ==
    [][/\ \A which \in {"newest", "older"}, data \in SearchData :
            SearchResponse(which, data) =>
                /\ OneEmptyState(results'.children)
                /\ ItemsOf(results'.children) = ShortcutFor(data, searchBar) \o data.books
                /\ Len(data.books) > 0 => results'.emptyText = ""
       /\ \A which \in {"newest", "older"}, data \in RecordSearchData :
            RecordSearchResponse(which, data) =>
                /\ OneEmptyState(results'.children)
                /\ ItemsOf(results'.children) = data
                /\ Len(data) > 0 => results'.emptyText = ""]_vars

\* Two books were rendered below the staff shortcut.
C12_Witness ==
    /\ results.of = "newest"
    /\ results.children = <<AddShortcut, EmptyTextEl, "b1", "b2">>
    /\ results.emptyText = ""
    /\ lastQuery = NoQuery

\* C19: once the search has been collapsed by an outside click and the
\* requests still outstanding have completed, the container shows no result
\* item. Stated for the response that follows the collapse at once while the
\* request of the collapse is the only one outstanding.
C19_CollapseClearsResults ==
    [][(lastQuery.event = "collapse" /\ ~searches.older /\ ~searches'.newest)
          => ItemsOf(results'.children) = <<>>]_vars

\* C20: at most one dropdown menu shows; a click on the trigger of a closed
\* dropdown opens it and closes every other one, and a click on the trigger
\* of an open dropdown closes it. Clicks inside a dropdown's content leave
\* both menus as they are, clicks elsewhere close both.
C20_DropdownsExclusive ==
    [][/\ ~(filterMenuShow' /\ navMenuShow')
       /\ FilterMenuClick => (filterMenuShow' = ~filterMenuShow /\ ~navMenuShow')
       /\ NavMenuClick => (navMenuShow' = ~navMenuShow /\ ~filterMenuShow')
       /\ (NavContentClick \/ \E v \in SortItems \cup GenreItems :
                                 FilterItemClick("sort", <<v>>) \/ FilterItemClick("genres", <<v>>))
             => UNCHANGED <<filterMenuShow, navMenuShow>>
       /\ WindowClickOutside => (~filterMenuShow' /\ ~navMenuShow')]_vars

\* The filter dropdown shows after a filter item was clicked inside it, and
\* the other dropdown is closed.
C20_Witness ==
    /\ filterMenuShow
    /\ ~navMenuShow
    /\ lastQuery.event = "filter"

\* C21: a click inside the content of a dropdown leaves the 'show' state of
\* every dropdown menu as it was: it neither toggles its own menu nor closes
\* another one.
C21_ContentClickKeepsMenus ==
    [][lastClick' = "content" => UNCHANGED <<filterMenuShow, navMenuShow>>]_vars

\* A genre was just toggled by a click inside the open filter dropdown, which
\* still shows.
C21_Witness ==
    /\ lastClick = "content"
    /\ lastQuery.event = "filter"
    /\ searchFilter.genres # <<>>
    /\ filterMenuShow

\* C22: after a click whose target is outside every dropdown menu, no
\* dropdown menu shows.
C22_OutsideClickClosesAll ==
    lastClick = "outside" => (~filterMenuShow /\ ~navMenuShow)

\* The click outside has just been handled and the search is still active:
\* the press before it found the filter dropdown open.
C22_Witness ==
    /\ lastClick = "outside"
    /\ active
    /\ ~filterMenuShow
    /\ ~navMenuShow
    /\ lastQuery = NoQuery

\* The values of the four units of a duration, largest unit first.
UnitValues(parts) == <<parts.d, parts.h, parts.m, parts.s>>

UnitLabels == <<"d", "h", "m", "s">>

\* The units formatTimeLeft is to show: the non-zero ones, but for the fourth.
ShownUnits(parts) ==
    LET nonZero == {i \in 1..4 : UnitValues(parts)[i] > 0}
    IN  {i \in nonZero : Cardinality({j \in nonZero : j < i}) < 3}

\* The fragment of unit i in the expected string, with the space that
\* separates it from a fragment before it.
Fragment(parts, i) ==
    IF i \notin ShownUnits(parts) THEN ""
    ELSE (IF \E j \in ShownUnits(parts) : j < i THEN " " ELSE "")
             \o ToString(UnitValues(parts)[i]) \o UnitLabels[i]

ExpectedTimeLeft(parts) ==
    IF ShownUnits(parts) = {} THEN "0s"
    ELSE Fragment(parts, 1) \o Fragment(parts, 2) \o Fragment(parts, 3) \o Fragment(parts, 4)

\* C23: formatTimeLeft(ms) returns the three largest non-zero units of ms
\* among days, hours mod 24, minutes mod 60 and seconds mod 60, largest
\* first and separated by single spaces, and '0s' when all four are zero.
C23_FormatTimeLeft ==
    fmtOut # None => fmtOut = ExpectedTimeLeft(fmtIn)

\* The example of the claim, 1d + 3h + 15m.
C23_Witness ==
    /\ fmtIn = [d |-> 1, h |-> 3, m |-> 15, s |-> 0, r |-> 0]
    /\ fmtOut = "1d 3h 15m"

\* C29: one confirmed submission of the borrow, return or delete modal sends
\* exactly one POST, for the entity most recently handed to the modal's entry
\* point, whatever openings and closings came before.
C29_OnePostForShownEntity ==
    [][\A m \in TriStateModals :
         Submit(m) =>
            LET shown == listeners[m][Len(listeners[m])]
            IN  inflight' = inflight (+) SetToBag({[modal |-> m, entity |-> shown]})]_vars

\* C24: no request is retried: the step that handles a failed response sends
\* no request, and one user action sends at most one request. Stated for the
\* modal POSTs: a response handled as a hard error adds nothing to the
\* requests in flight, and one submission adds at most one.
C24_NoRetryOneAttempt ==
    [][/\ (handled' # NoneHandled /\ handled'.resp \in HardErrors /\ nav' = Stay)
            => BagCardinality(inflight') < BagCardinality(inflight)
       /\ \A m \in Modals :
            Submit(m) => BagCardinality(inflight') <= BagCardinality(inflight) + 1]_vars

\* C25: when a search request fails, the results on display, searchFilter,
\* the search bar text and the URL and history are what they were before the
\* query was issued. Stated for a query whose request fails right after it
\* was issued: the failure changes none of them, and the call of searchQuery
\* had not changed the URL and history either (it executed no pushState).
C25_FailedSearchLeavesState ==
    [][(lastQuery # NoQuery /\ SearchFails("newest")) =>
          /\ UNCHANGED <<searchFilter, searchBar, history, cursor>>
          /\ results'.children = results.children
          /\ results'.emptyText = results.emptyText
          /\ lastQuery.pushed = None]_vars

\* Items on the page before and after a step.
Kept == DOMAIN items \cap DOMAIN items'

\* C26: the two timers of an unreturned record are independent and a timer
\* is cancelled by nothing but its own evaluation reaching its own end: the
\* step that cancels the return timer of a record is an evaluation of that
\* timer at or after the end of the cooldown, the step that cancels the due
\* timer is an evaluation of that timer at or after the due date, and either
\* step leaves the other timer of the record and every other record as they
\* are. No step takes an item, and with it its timers, off the page.
C26_TimersIndependent ==
    [][/\ DOMAIN items \subseteq DOMAIN items'
       /\ \A i \in Kept :
            /\ (items[i].returnTimer /\ ~items'[i].returnTimer) =>
                  /\ items'[i].returnNow = now
                  /\ items[i].data.borrow + Day <= now
                  /\ items'[i].dueTimer = items[i].dueTimer
                  /\ \A j \in Kept \ {i} : items'[j] = items[j]
            /\ (items[i].dueTimer /\ ~items'[i].dueTimer) =>
                  /\ items'[i].dueNow = now
                  /\ items[i].data.due <= now
                  /\ items'[i].returnTimer = items[i].returnTimer
                  /\ \A j \in Kept \ {i} : items'[j] = items[j]]_vars

\* The return timer of the first record has ended; its due timer and both
\* timers of the second record still run, with the return modal open and the
\* record search answered.
C26_Witness ==
    /\ Len(items) = 2
    /\ ~items[1].returnTimer
    /\ items[1].dueTimer
    /\ items[2].returnTimer
    /\ items[2].dueTimer
    /\ modalShow["return"]
    /\ results.of = "newest"

\* The entries of the `errors` object of the response taken up in this state.
ReportedEntries ==
    {formHandled.resp.body.errors[i] : i \in DOMAIN formHandled.resp.body.errors}

\* The error elements of a form that carry 'show'.
ShownElements(form) == {el \in ErrorElements : formErrors[form][el].show}

\* C27: once a login or register response without `success` is handled,
\* every reported field that has an error element (for login, '__all__' has
\* the password element) shows exactly its own message there, and the shown
\* error elements are exactly the elements of the reported fields.
C27_ErrorsShownAsReported ==
    (/\ formHandled.modal \in Forms
     /\ formHandled.resp.kind = "json"
     /\ ~formHandled.resp.body.success)
    => LET form == formHandled.modal
       IN  /\ \A e \in ReportedEntries :
                 ElementFor(form, e.field) # None
                 => formErrors[form][ElementFor(form, e.field)] = [show |-> TRUE, text |-> e.msg]
           /\ ShownElements(form) = {ElementFor(form, e.field) : e \in ReportedEntries} \ {None}

\* The sections the last step appended to the featured container.
AppendedSections == SubSeq(featuredContainer', Len(featuredContainer) + 1, Len(featuredContainer'))

\* C28: rendering a featured payload appends one section per section of the
\* payload; a section shows at most 7 items, as many as it has books when
\* these are at most 7, and 'Nothing to display here.' when it has no books.
C28_AtMostSevenPerSection ==
    [][\A data \in FeaturedData :
         FeaturedResponse(data)
         => /\ Len(AppendedSections) = Len(data)
            /\ \A i \in 1..Len(data) :
                 LET sec == AppendedSections[i]
                     n == Len(data[i].books)
                 IN  /\ Len(sec.items) <= 7
                     /\ n <= 7 => Len(sec.items) = n
                     /\ n = 0 => sec.text = "Nothing to display here."]_vars

\* C30: the last query wins. Once the container shows the results of the
\* most recently issued query, a step after which no search request is
\* outstanding leaves the results of that query in the container, whatever
\* response the step consumed.
C30_LastQueryWins ==
    [][(results.of = "newest" /\ ~searches'.newest /\ ~searches'.older)
          => results'.of = "newest"]_vars

\* C31: after a click on the clear-filter button searchFilter equals
\* defaultFilter in every key and the clear-filter button is hidden, whatever
\* URL the page was opened with.
C31_ClearResetsToDefault ==
    lastQuery.event = "clear" => (searchFilter = defaultFilter /\ ~clearShown)

\* C34: history entries are pushed by user actions only. The page load
\* pushes no entry, and a step of any other event leaves the history as it
\* is or puts exactly one entry after the current one.
C34_LoadPushesNothing ==
    [][/\ lastQuery'.event = "load" => lastQuery'.pushed = None
       /\ (lastQuery'.event # None /\ lastQuery'.event # "load")
             => \/ history' = history
                \/ /\ cursor' = cursor + 1
                   /\ Len(history') = cursor'
                   /\ SubSeq(history', 1, cursor) = SubSeq(history, 1, cursor)]_vars

\* C36: the search text round-trips through the URL. When the user navigates
\* to a history entry that the query for the text T pushed while the filter
\* state was S, the popstate handler leaves T (trimmed) in the search bar and
\* S in searchFilter, whatever characters T contains.
C36_SearchTextRoundTrip ==
    lastQuery.event = "popstate" =>
        \A T \in Texts, S \in ToggledFilters :
            history[cursor] = QueryURL(Trim(T), S) =>
                /\ searchBar = Trim(T)
                /\ searchFilter.sort = S.sort
                /\ Range(searchFilter.genres) = Range(S.genres)

\* C38: arraysEqual(a, b) returns true exactly when a and b hold the same
\* set of values, arrays with repeated values included.
C38_ArraysEqualIsSetEquality ==
    eqCalled => (eqOut <=> Range(eqA) = Range(eqB))

\* C37: defaultFilter is never modified. Whatever filter items are clicked,
\* multi-select toggles included, and whatever the clear-filter button, the
\* page-load seeding and the popstate handler do, the defaultFilter object
\* holds the page-provided values and searchFilter shares no array with it.
C37_DefaultFilterUntouched ==
    baseline = defaultFilter /\ ~sharedGenres

\* Two genres were toggled on after a load without a genres parameter, where
\* the seeding took the default array, and the baseline is as delivered.
C37_Witness ==
    /\ lastQuery.event = "filter"
    /\ ParamsGet(params, <<"genres">>) = Null
    /\ Len(searchFilter.genres) = 2
    /\ baseline = defaultFilter

\* C32: a record whose terminal condition holds already when it is rendered
\* (the cooldown has elapsed, or the due date has passed) has no interval
\* for that condition once the rendering is done, so the update function of
\* that condition has run once and never runs again.
C32_NoTimerWhenTerminalAtRender ==
    [][\A data \in RecordLists :
          RenderRecords(data)
          => \A i \in 1..Len(data) :
                ~data[i].returned
                => /\ now >= data[i].borrow + 24 * Hour => ~items'[i].returnTimer
                   /\ now >= data[i].due => ~items'[i].dueTimer]_vars

\* C35: rendering a record that has a return_date starts no timer and
\* removes the return action, and its clock button is 'critical' with
\* tooltip 'Returned overdue' exactly when the return date is later in time
\* than the due date, otherwise 'done' with tooltip 'Returned'; rendering a
\* record without a return_date removes the return-date element and starts
\* exactly the two timers.
C35_RenderedByReturnDate ==
    [][\A data \in RecordLists :
          RenderRecords(data)
          => \A i \in 1..Len(data) :
                LET it == items'[i]
                IN  IF data[i].return_date # NullDate
                    THEN /\ ~it.returnTimer /\ ~it.dueTimer
                         /\ ~it.returnBtn
                         /\ IF ParseDate(data[i].return_date) > ParseDate(data[i].due_date)
                            THEN it.clockClass = {"critical"}
                                 /\ it.clockTooltip = "Returned overdue"
                            ELSE it.clockClass = {"done"} /\ it.clockTooltip = "Returned"
                    ELSE /\ ~it.returnDateEl
                         /\ it.returnTimer /\ it.dueTimer]_vars

\* C33: in every reachable state the error element of a modal is shown only
\* while the modal itself is shown; a response that arrives after the modal
\* was closed makes no error visible for the closed modal.
C33_ErrorOnlyWhileShown ==
    \A m \in Modals : modalErrShow[m] => modalShow[m]
====
